---- MODULE Spec2Model ----
(***************************************************************************)
(* The mark-and-sweep collector of the interpreter (Recycle_Core and the   *)
(* marking and sweeping routines it calls, src/src/core/n-reduce.c lines   *)
(* 1780-3551), as a state machine over a small heap.                       *)
(*                                                                         *)
(* The heap is a series pool of PoolUnits nodes plus one-unit gob, library *)
(* and routine pools.  The evaluator (the mutator) is the environment: it  *)
(* owns the guard stacks and the collector switches and acts only while no *)
(* cycle is running, because the program is single threaded.  A cycle is   *)
(* one Recycle_Core call, cut into the steps of its own text: each root    *)
(* group, each pop of the mark stack, each pool sweep, the epilogue.       *)
(***************************************************************************)
EXTENDS Integers, Sequences, FiniteSets, TLC

(***************************************************************************)
(* Bounds of the model.                                                    *)
(***************************************************************************)
\* how many references (cells that hold a reference, guard entries) and
\* irregularities (an unmanaged series, a switched-off collector) an initial
\* state may combine
MaxRefs == 2
\* how many operations the evaluator performs between collections
MaxOps == 2
\* deepest nesting of the GC_Disabled counter
MaxDisable == 1

(***************************************************************************)
(* The nodes.  The series pool holds the two boot contexts, a port, three  *)
(* plain arrays, a binary, a routine's paramlist, a gob's pane and the     *)
(* series of two STRUCT! values; the last unit is free.                    *)
(***************************************************************************)
\* the varlist and the keylist of PG_Root_Context, of TG_Task_Context and of a port
RootV == 1
RootK == RootV + 1
TaskV == RootK + 1
TaskK == TaskV + 1
PortV == TaskK + 1
PortK == PortV + 1
\* three arrays and a binary
ArrA == PortK + 1
ArrB == ArrA + 1
ArrC == ArrB + 1
BinD == ArrC + 1
\* the paramlist of a routine and the pane of a gob
ParL == BinD + 1
PaneS == ParL + 1
\* an outer struct (its one-element data series, its field list) and the struct
\* of its second field, taken out as a value of its own (its own data series; its
\* field list is the field's); both keep their bytes in the data binary StuB
StuD == PaneS + 1
StuF == StuD + 1
StuB == StuF + 1
StuE == StuB + 1
StuG == StuE + 1
\* the last unit of the initial heap
LastUnit == StuG
\* the units of the series pool
PoolUnits == 18

Series == 1..PoolUnits
NULL == 0

Max(a, b) == IF a > b THEN a ELSE b

(***************************************************************************)
(* Value cells.  type is the cell's REB_ kind; ser, aux and extra are the  *)
(* node references of its payload; class is the function class or the      *)
(* event model.                                                            *)
(***************************************************************************)
Val(t, s, x, c, e) == [type |-> t, ser |-> s, aux |-> x, class |-> c, extra |-> e]

NONE == Val("REB_NONE", NULL, NULL, "", NULL)
TYPESET == Val("REB_TYPESET", NULL, NULL, "", NULL)
TASK == Val("REB_TASK", NULL, NULL, "", NULL)
Block(a) == Val("REB_BLOCK", a, NULL, "", NULL)
String(s) == Val("REB_STRING", s, NULL, "", NULL)
\* VAL_CONTEXT is ser, VAL_CONTEXT_SPEC is aux
Object(c) == Val("REB_OBJECT", c, NULL, "", NULL)
\* VAL_EVENT_SER (or the port of the one request of VAL_EVENT_REQ) is ser
Event(model, s) == Val("REB_EVENT", s, NULL, model, NULL)
\* VAL_LIB_HANDLE is ser (a unit of the library pool), VAL_LIB_SPEC is aux
Library(h, spec) == Val("REB_LIBRARY", h, spec, "", NULL)
\* VAL_FUNC_PARAMLIST is ser, VAL_FUNC_SPEC is aux; extra is VAL_FUNC_BODY
\* (class USER) or VAL_ROUTINE (class ROUTINE, a unit of the routine pool)
Function(class, paramlist, spec, impl) == Val("REB_FUNCTION", paramlist, spec, class, impl)
\* VAL_GOB is ser (a unit of the gob pool)
Gob(g) == Val("REB_GOB", g, NULL, "", NULL)
\* a word: bound to the context ser (class "bound"), or relative to the function
\* whose paramlist is ser (class "relative")
Word(class, binding) == Val("REB_WORD", binding, NULL, class, NULL)
\* of VAL_STRUCT: data is ser, spec is aux, fields is extra
Struct(data, spec, fields) == Val("REB_STRUCT", data, spec, "", fields)

(***************************************************************************)
(* The fields of a struct (struct Struct_Field): type, the field list and  *)
(* the spec of a field that is a struct itself, and for a field that holds *)
(* a value cell whether the cell is initialised (done) and where in the    *)
(* data binary it lies (offset, counted in cells; dimension is 1).         *)
(***************************************************************************)
Field_Struct(fields, spec) ==
    [type |-> "STRUCT_TYPE_STRUCT", fields |-> fields, spec |-> spec, done |-> TRUE,
     offset |-> 0]
Field_Rebval(offset, done) ==
    [type |-> "STRUCT_TYPE_REBVAL", fields |-> NULL, spec |-> NULL, done |-> done,
     offset |-> offset]

(***************************************************************************)
(* Call frames.  indexor is VALIST_FLAG (the input is a C va_list, whose   *)
(* pending cells are va), END_FLAG (the frame stands at the end of its     *)
(* source array) or an index into the source array; func is the paramlist  *)
(* of the function being invoked, out the output cell; frame_context says  *)
(* DO_FLAG_FRAME_CONTEXT is set and context is then the varlist of         *)
(* data.context.  The frames of the model have no pending value, param or  *)
(* refine cell and no subfeed (the pointers are NULL).                     *)
(***************************************************************************)
Frame(indexor, source, va, mode, func, out, context) ==
    [indexor |-> indexor, source |-> source, va |-> va, mode |-> mode, func |-> func,
     out |-> out, frame_context |-> context # NULL, context |-> context]

(***************************************************************************)
(* State.                                                                  *)
(***************************************************************************)
VARIABLES
    NDEBUG,           \* TRUE in a release build: asserts and debug checks are compiled out
    ser,              \* the series pool: node -> header flags, link and cells
    mark,             \* the series whose SERIES_FLAG_MARK is set
    pool_free,        \* the free list of each pool, most recently freed node last
    gobs,             \* the gob pool: unit -> gob
    libs,             \* the library-handle pool: unit -> handle
    rins,             \* the routine-descriptor pool: unit -> routine info
    gob_mark,         \* the gobs with their mark bit set
    lib_mark,         \* the library handles with their mark bit set
    rin_mark,         \* the routine descriptors with ROUTINE_MARK set
    GC_Series_Guard,  \* the series guard stack, bottom first
    GC_Value_Guard,   \* the value guard stack, bottom first
    TG_Top_Chunk,     \* the cells of the chunk stack, in the order the collector walks them
    Callback_Error,   \* the cell Callback_Error
    pending,          \* the ports of the devices' pending requests, in walking order
    TG_Frame_Stack,   \* the call-frame chain, the top frame first
    GC_Active,        \* recycling is switched on
    GC_Disabled,      \* the nesting counter that switches collection off
    SIG_RECYCLE,      \* the pending-collection signal
    GC_Ballast,       \* the bytes that may still be allocated before a cycle is due
    TASK_BALLAST,     \* the byte budget the ballast is measured against
    GC_Mark_Stack,    \* the mark worklist, bottom first
    pc,               \* where the running Recycle_Core call stands ("idle": none is running)
    ret,              \* the step that follows the running Propagate_All_GC_Marks
    idx,              \* the loop index of the guard-stack loops
    shutdown,         \* the shutdown argument of the running call
    count,            \* the local variable count of the running call
    depth,            \* the deepest native call nesting the marking routines (native) and
                      \* Mark_Array_Deep_Core among them (core) have reached in the cycle
    hist,             \* what the properties need to remember about earlier states
    call,             \* the routine of the evaluator that is running, where it stands and
                      \* what it holds in its locals ("none": the model follows none)
    target            \* what a pointer points to: its kind, the leading bits of its
                      \* header and what the bits were taken for

vars == <<NDEBUG, ser, mark, pool_free, gobs, libs, rins, gob_mark, lib_mark,
          rin_mark, GC_Series_Guard, GC_Value_Guard, TG_Top_Chunk, Callback_Error,
          pending, TG_Frame_Stack, GC_Active, GC_Disabled, SIG_RECYCLE, GC_Ballast, TASK_BALLAST,
          GC_Mark_Stack, pc, ret,
          idx, shutdown, count, depth, hist, call, target>>

heap == <<ser, gobs, libs, rins>>
roots == <<GC_Series_Guard, GC_Value_Guard, TG_Top_Chunk, Callback_Error, pending,
           TG_Frame_Stack>>
ballast == <<GC_Ballast, TASK_BALLAST>>

MEM_BALLAST == 3000000

GobUnits == 1..2
LibUnits == 1..1
RinUnits == 1..1

\* a node of the series pool that is on the free list: its header is all zero
FreeSeries == [used |-> FALSE, managed |-> FALSE, array |-> FALSE, varlist |-> FALSE,
               link |-> NULL, stack |-> FALSE, accessible |-> TRUE, cells |-> <<>>,
               total |-> 0, fields |-> <<>>]
FreeGob == [used |-> FALSE, pane_ser |-> NULL, pane |-> <<>>, parent |-> NULL,
            content |-> NULL, ctype |-> "GOBT_NONE", data |-> NULL, dtype |-> "GOBD_NONE"]
FreeLib == [used |-> FALSE]
FreeRin == [used |-> FALSE, spec |-> NULL, ffi_arg_types |-> NULL,
            ffi_arg_structs |-> NULL, extra_mem |-> NULL, callback |-> FALSE,
            cb_func |-> NULL, variadic |-> FALSE, fixed_args |-> NULL,
            all_args |-> NULL, lib |-> NULL]

SER_FREED(s) == ~ser[s].used
CTX_KEYLIST(c) == ser[c].link
\* the data binary of a struct: the one element of its data series points to it
STRUCT_DATA_BIN(stu) == ser[stu.ser].link
ARR_LEN(a) == Len(ser[a].cells)

(***************************************************************************)
(* The mark phase.  The marking routines are operators on the record       *)
(*   m = [mark, gob, lib, rin, stack, pushed, visited, out, depth]         *)
(* of everything they write: the four kinds of mark bits, GC_Mark_Stack,   *)
(* the arrays the cycle has pushed on it so far (pushed), the gobs and the *)
(* routines whose references it has walked so far (visited), how the run   *)
(* ended so far (out) and the native call depth reached.  out              *)
(* is "ok", or "panic" (a failed assert or a panic: the process aborts),   *)
(* "fail" (fail() leaves the cycle by longjmp), "ub" (a freed node was     *)
(* read or written through a dangling reference: whatever follows is not   *)
(* defined, and the model stops there) or "overflow" (the recursion has    *)
(* used up the native stack).  The last parameter d of each routine is     *)
(* the native call depth at which it runs.                                 *)
(***************************************************************************)
\* the native call depth at which the stack is used up
StackLimit == 16

Halt(m, how) == IF m.out = "ok" THEN [m EXCEPT !.out = how] ELSE m
Enter(m, d) ==
    IF d > StackLimit THEN Halt(m, "overflow")
    ELSE [m EXCEPT !.depth.native = Max(@, d)]

RECURSIVE Queue_Mark_Value_Deep(_, _, _)
RECURSIVE Mark_Array_Deep_Core(_, _, _)
RECURSIVE Queue_Mark_Gob_Deep(_, _, _)
RECURSIVE Mark_Cells(_, _, _, _)
RECURSIVE Mark_Pane(_, _, _, _)
RECURSIVE Queue_Mark_Field_Deep(_, _, _, _)
RECURSIVE Mark_Fields(_, _, _, _, _)
RECURSIVE Queue_Mark_Struct_Deep(_, _, _)

\* a push that traces the array at once, in a nested call
Push_Array_Traced_Deep(m0, array, key_list, d) ==
    Mark_Array_Deep_Core(Enter(m0, d), [array |-> array, key_list |-> key_list], d + 1)

\* the push without the test of the stack level
Push_Array_Marked_Deep_Popped(m0, array, key_list, d) ==
    LET m == Enter(m0, d) IN
    IF ~NDEBUG /\ ~ser[array].managed THEN Halt(m, "panic")
    ELSE IF NDEBUG /\ SER_FREED(array) THEN Halt(m, "ub")
    ELSE IF ~NDEBUG /\ ~ser[array].array THEN Halt(m, "panic")
    ELSE IF ~NDEBUG /\ key_list # NULL /\ ARR_LEN(array) > ARR_LEN(key_list)
         THEN Halt(m, "panic")
    ELSE [m EXCEPT !.stack = Append(@, [array |-> array, key_list |-> key_list]),
                   !.pushed = Append(@, array)]

\* lines 1884-1940; the macro that calls it has set the mark bit already
Push_Array_Marked_Deep(m0, array, key_list, d) ==
    LET m == Enter(m0, d) IN
    IF ~NDEBUG /\ ~ser[array].managed THEN Halt(m, "panic")
    ELSE IF NDEBUG /\ SER_FREED(array) THEN Halt(m, "ub")
    ELSE IF ~NDEBUG /\ ~ser[array].array THEN Halt(m, "panic")
    ELSE IF ser[array].stack /\ ~ser[array].accessible THEN m
    ELSE IF ~NDEBUG /\ key_list # NULL /\ ARR_LEN(array) > ARR_LEN(key_list)
         THEN Halt(m, "panic")
    ELSE [m EXCEPT !.stack = Append(@, [array |-> array, key_list |-> key_list]),
                   !.pushed = Append(@, array)]

\* the macro without the test of the mark bit
QUEUE_MARK_ARRAY_DEEP_Untested(m, a, keylist, d) ==
    IF m.out # "ok" THEN m
    ELSE Push_Array_Marked_Deep([m EXCEPT !.mark = @ \cup {a}], a, keylist, d + 1)

\* lines 1955-1972 (a macro: it runs at the depth of the routine that uses it)
QUEUE_MARK_ARRAY_DEEP(m, a, keylist, d) ==
    IF m.out # "ok" THEN m
    ELSE IF a \in m.mark THEN m
    ELSE Push_Array_Marked_Deep([m EXCEPT !.mark = @ \cup {a}], a, keylist, d + 1)

\* lines 1974-1979: the keylist first, then the varlist
QUEUE_MARK_CONTEXT_DEEP(m, c, d) ==
    IF m.out # "ok" THEN m
    ELSE IF ~NDEBUG /\ ~ser[c].varlist THEN Halt(m, "panic")
    ELSE IF NDEBUG /\ SER_FREED(c) THEN Halt(m, "ub")
    ELSE QUEUE_MARK_ARRAY_DEEP(
             QUEUE_MARK_ARRAY_DEEP(m, CTX_KEYLIST(c), CTX_KEYLIST(c), d),
             c, CTX_KEYLIST(c), d)

\* the mark without the check of the managed flag
MARK_SERIES_ONLY_Unchecked(m, s, d) ==
    IF m.out # "ok" THEN m
    ELSE IF SER_FREED(s) THEN Halt(m, "ub")
    ELSE [m EXCEPT !.mark = @ \cup {s}]

\* lines 2002-2016 and 2031-2039
MARK_SERIES_ONLY(m, s, d) ==
    IF m.out # "ok" THEN m
    ELSE IF s \in m.mark THEN m
    ELSE IF ~NDEBUG /\ ~ser[s].managed THEN Halt(Enter(m, d + 1), "panic")
    ELSE IF NDEBUG /\ SER_FREED(s) THEN Halt(m, "ub")
    ELSE [m EXCEPT !.mark = @ \cup {s}]

\* the loop of lines 2077-2078 from child i on
Mark_Pane(m, pane, i, d) ==
    IF i > Len(pane) THEN m
    ELSE Mark_Pane(Queue_Mark_Gob_Deep(m, pane[i], d + 1), pane, i + 1, d)

\* lines 2054-2121
Queue_Mark_Gob_Deep(m0, gob, d) ==
    LET m == Enter(m0, d)
        g == gobs[gob]
    IN
    IF m.out # "ok" THEN m
    ELSE IF ~g.used THEN Halt(m, "ub")
    ELSE IF gob \in m.gob THEN m
    ELSE
    LET m1 == [m EXCEPT !.gob = @ \cup {gob}, !.visited = Append(@, <<"gob", gob>>)]
        m2 == IF g.pane_ser # NULL
              THEN Mark_Pane(MARK_SERIES_ONLY(m1, g.pane_ser, d), g.pane, 1, d)
              ELSE m1
        m3 == IF g.parent # NULL THEN Queue_Mark_Gob_Deep(m2, g.parent, d + 1) ELSE m2
        m4 == IF g.content = NULL THEN m3
              ELSE IF g.ctype \in {"GOBT_IMAGE", "GOBT_STRING"}
                   THEN MARK_SERIES_ONLY(m3, g.content, d)
              ELSE IF g.ctype \in {"GOBT_DRAW", "GOBT_TEXT", "GOBT_EFFECT"}
                   THEN QUEUE_MARK_ARRAY_DEEP(m3, g.content, NULL, d)
              ELSE m3
    IN
    IF g.data = NULL THEN m4
    ELSE CASE g.dtype = "GOBD_OBJECT" -> QUEUE_MARK_CONTEXT_DEEP(m4, g.data, d)
           [] g.dtype \in {"GOBD_STRING", "GOBD_BINARY"} -> MARK_SERIES_ONLY(m4, g.data, d)
           [] g.dtype = "GOBD_BLOCK" -> QUEUE_MARK_ARRAY_DEEP(m4, g.data, NULL, d)
           [] OTHER -> m4

\* lines 2245-2315
Queue_Mark_Routine_Deep(m0, rot, d) ==
    LET m == Enter(m0, d)
        r == rins[rot]
    IN
    IF m.out # "ok" THEN m
    ELSE IF ~r.used THEN Halt(m, "ub")
    ELSE IF rot \in m.rin THEN m
    ELSE
    LET m1 == [m EXCEPT !.rin = @ \cup {rot}, !.visited = Append(@, <<"rin", rot>>)]
        m2 == QUEUE_MARK_ARRAY_DEEP(m1, r.spec, NULL, d)
        m3 == MARK_SERIES_ONLY(m2, r.ffi_arg_types, d)
        m4 == QUEUE_MARK_ARRAY_DEEP(m3, r.ffi_arg_structs, NULL, d)
        m5 == MARK_SERIES_ONLY(m4, r.extra_mem, d)
        m6 == IF r.fixed_args # NULL
              THEN QUEUE_MARK_ARRAY_DEEP(m5, r.fixed_args, NULL, d) ELSE m5
        m7 == IF r.all_args # NULL
              THEN QUEUE_MARK_ARRAY_DEEP(m6, r.all_args, NULL, d) ELSE m6
        m8 == IF r.variadic THEN m7 ELSE m5
    IN
    IF r.callback
    THEN IF r.cb_func # NULL
         THEN QUEUE_MARK_ARRAY_DEEP(m5, r.cb_func, r.cb_func, d)
         ELSE m5
    ELSE IF r.lib = NULL \/ m8.out # "ok" THEN m8
    ELSE IF ~libs[r.lib].used THEN Halt(m8, "ub")
    ELSE IF r.lib \notin m8.lib THEN [m8 EXCEPT !.lib = @ \cup {r.lib}]
    ELSE m8

\* the loops of lines 2154-2158 and 2225-2230 from field i of the list on
Mark_Fields(m, stu, list, i, d) ==
    IF i > Len(list) \/ m.out # "ok" THEN m
    ELSE Mark_Fields(Queue_Mark_Field_Deep(m, stu, list[i], d + 1), stu, list, i + 1, d)

\* lines 2135-2181
Queue_Mark_Field_Deep(m0, stu, field, d) ==
    LET m == Enter(m0, d) IN
    IF m.out # "ok" THEN m
    ELSE IF field.type = "STRUCT_TYPE_STRUCT"
    THEN LET m1 == MARK_SERIES_ONLY(m, field.fields, d)
             m2 == QUEUE_MARK_ARRAY_DEEP(m1, field.spec, NULL, d)
         IN Mark_Fields(m2, stu, ser[field.fields].fields, 1, d)
    ELSE IF field.type = "STRUCT_TYPE_REBVAL"
    THEN IF SER_FREED(stu.ser) \/ SER_FREED(STRUCT_DATA_BIN(stu)) THEN Halt(m, "ub")
         ELSE IF field.done
         THEN Queue_Mark_Value_Deep(m, ser[STRUCT_DATA_BIN(stu)].cells[field.offset], d + 1)
         ELSE m
    ELSE m

\* the struct marked without the test of its data binary's mark bit
Queue_Mark_Struct_Deep_Untested(m0, stu, d) ==
    LET m == Enter(m0, d) IN
    IF m.out # "ok" THEN m
    ELSE IF SER_FREED(stu.ser) THEN Halt(m, "ub")
    ELSE
    LET m1 == QUEUE_MARK_ARRAY_DEEP(m, stu.aux, NULL, d)
        m2 == MARK_SERIES_ONLY(m1, stu.extra, d)
        m3 == MARK_SERIES_ONLY(m2, STRUCT_DATA_BIN(stu), d)
        m4 == MARK_SERIES_ONLY(m3, stu.ser, d)
    IN Mark_Fields(m4, stu, ser[stu.extra].fields, 1, d)

\* lines 2195-2231
Queue_Mark_Struct_Deep(m0, stu, d) ==
    LET m == Enter(m0, d) IN
    IF m.out # "ok" THEN m
    ELSE IF SER_FREED(stu.ser) THEN Halt(m, "ub")
    ELSE IF STRUCT_DATA_BIN(stu) \in m.mark THEN m
    ELSE
    LET m1 == QUEUE_MARK_ARRAY_DEEP(m, stu.aux, NULL, d)
        m2 == MARK_SERIES_ONLY(m1, stu.extra, d)
        m3 == MARK_SERIES_ONLY(m2, STRUCT_DATA_BIN(stu), d)
        m4 == MARK_SERIES_ONLY(m3, stu.ser, d)
    IN Mark_Fields(m4, stu, ser[stu.extra].fields, 1, d)

\* lines 2325-2357; the request chain of a device event is one request
Queue_Mark_Event_Deep(m0, value, d) ==
    LET m == Enter(m0, d) IN
    IF value.class \in {"EVM_PORT", "EVM_OBJECT"}
    THEN QUEUE_MARK_ARRAY_DEEP(m, value.ser, NULL, d)
    ELSE IF value.class = "EVM_DEVICE" /\ value.ser # NULL
    THEN QUEUE_MARK_CONTEXT_DEEP(m, value.ser, d)
    ELSE m

\* lines 2543-2849, for the kinds of cell the model's heaps hold
Queue_Mark_Value_Deep(m0, val, d) ==
    LET m == Enter(m0, d) IN
    IF m.out # "ok" THEN m
    ELSE CASE val.type \in {"REB_NONE", "REB_TYPESET", "REB_HANDLE", "REB_INTEGER"} -> m
           [] val.type = "REB_TASK" -> Halt(m, "fail")
           [] val.type \in {"REB_OBJECT", "REB_PORT", "REB_ERROR"} ->
                LET m1 == QUEUE_MARK_CONTEXT_DEEP(m, val.ser, d) IN
                IF val.aux # NULL THEN QUEUE_MARK_CONTEXT_DEEP(m1, val.aux, d) ELSE m1
           [] val.type = "REB_FUNCTION" ->
                LET m1 == IF val.class = "FUNC_CLASS_USER"
                          THEN QUEUE_MARK_ARRAY_DEEP(m, val.extra, NULL, d)
                          ELSE IF val.class \in {"FUNC_CLASS_ROUTINE", "FUNC_CLASS_CALLBACK"}
                          THEN Queue_Mark_Routine_Deep(m, val.extra, d + 1)
                          ELSE m
                    m2 == QUEUE_MARK_ARRAY_DEEP(m1, val.aux, NULL, d)
                IN QUEUE_MARK_ARRAY_DEEP(m2, val.ser, val.ser, d)
           [] val.type \in {"REB_STRING", "REB_BINARY"} -> MARK_SERIES_ONLY(m, val.ser, d)
           [] val.type = "REB_BLOCK" -> QUEUE_MARK_ARRAY_DEEP(m, val.ser, NULL, d)
           [] val.type = "REB_LIBRARY" ->
                IF ~libs[val.ser].used THEN Halt(m, "ub")
                ELSE IF val.ser \notin m.lib
                THEN QUEUE_MARK_ARRAY_DEEP([m EXCEPT !.lib = @ \cup {val.ser}],
                                           val.aux, NULL, d)
                ELSE m
           [] val.type = "REB_STRUCT" -> Queue_Mark_Struct_Deep(m, val, d + 1)
           [] val.type = "REB_WORD" ->
                IF val.class = "relative" THEN QUEUE_MARK_ARRAY_DEEP(m, val.ser, val.ser, d)
                ELSE QUEUE_MARK_CONTEXT_DEEP(m, val.ser, d)
           [] val.type = "REB_GOB" -> Queue_Mark_Gob_Deep(m, val.ser, d + 1)
           [] val.type = "REB_EVENT" -> Queue_Mark_Event_Deep(m, val, d + 1)
           [] OTHER -> Halt(m, "panic")

\* the loop of lines 2913-2943 from cell i on
Mark_Cells(m, cells, i, d) ==
    IF i > Len(cells) THEN m
    ELSE Mark_Cells(Queue_Mark_Value_Deep(m, cells[i], d + 1), cells, i + 1, d)

\* lines 2869-2944
Mark_Array_Deep_Core(m0, elem, d) ==
    LET m == [Enter(m0, d) EXCEPT !.depth.core = Max(@, d)]
        array == elem.array
    IN
    IF m.out # "ok" THEN m
    ELSE IF ~NDEBUG /\ array \notin m.mark THEN Halt(m, "panic")
    ELSE IF ~NDEBUG /\ ser[array].varlist /\ CTX_KEYLIST(array) \notin m.mark
         THEN Halt(m, "panic")
    ELSE IF ~NDEBUG /\ (~ser[array].array \/ SER_FREED(array)) THEN Halt(m, "panic")
    ELSE IF ~NDEBUG /\ elem.key_list # NULL /\ ARR_LEN(array) > ARR_LEN(elem.key_list)
         THEN Halt(m, "panic")
    ELSE Mark_Cells(m, ser[array].cells, 1, d)

\* lines 2423-2520: one frame of the loop of Mark_Frame_Stack_Deep, up to the
\* Propagate_All_GC_Marks that ends the turn
Mark_Frame(m0, f, d) ==
    LET m == Enter(m0, d) IN
    IF f.indexor = "VALIST_FLAG" THEN Halt(m, IF NDEBUG THEN "ub" ELSE "panic")
    ELSE
    LET m1 == IF f.indexor = "END_FLAG" THEN m
              ELSE QUEUE_MARK_ARRAY_DEEP(m, f.source, NULL, d)
        m2 == QUEUE_MARK_ARRAY_DEEP(m1, f.func, f.func, d)
        m3 == Queue_Mark_Value_Deep(m2, f.out, d + 1)
    IN
    IF f.mode = "CALL_MODE_GUARD_ARRAY_ONLY" THEN m1
    ELSE IF ~f.frame_context \/ m3.out # "ok" THEN m3
    ELSE IF ser[f.context].managed THEN QUEUE_MARK_CONTEXT_DEEP(m3, f.context, d)
    ELSE QUEUE_MARK_ARRAY_DEEP(m3, CTX_KEYLIST(f.context), CTX_KEYLIST(f.context), d)

\* what the marking routines find when a step calls them
Marks == [mark |-> mark, gob |-> gob_mark, lib |-> lib_mark, rin |-> rin_mark,
          stack |-> GC_Mark_Stack, pushed |-> hist.pushed, visited |-> hist.visited,
          out |-> "ok", depth |-> depth]

\* line 1946: the static flag of the mark phase; no statement assigns it
in_mark == FALSE

\* lines 1986, 1993 and 3117: assert(!in_mark), at the head of MARK_ARRAY_DEEP,
\* MARK_CONTEXT_DEEP and Propagate_All_GC_Marks
Marks_Not_In_Mark == IF ~NDEBUG /\ in_mark THEN Halt(Marks, "panic") ELSE Marks

(***************************************************************************)
(* The sweep phase.  Each sweep walks its pool's units in address order;   *)
(* the units it frees do not depend on that order.  A freed node's header  *)
(* is zeroed, mark bit included, and the node goes on its pool's free list.*)
(***************************************************************************)
\* what GC_Kill_Series does to the nodes of the set killed; the bytes of their
\* data go back to GC_Ballast (the bytes_freed of line 3393)
GC_Kill_Series(pool, killed) == [s \in Series |-> IF s \in killed THEN FreeSeries ELSE pool[s]]
Free_Gob(pool, killed) == [g \in GobUnits |-> IF g \in killed THEN FreeGob ELSE pool[g]]
Free_Node(pool, killed) == [l \in LibUnits |-> IF l \in killed THEN FreeLib ELSE pool[l]]
Free_Routine(pool, killed) == [r \in RinUnits |-> IF r \in killed THEN FreeRin ELSE pool[r]]

\* lines 2968-2997: the series the sweep kills, the marks it leaves, whether its
\* assert fails
Sweep_Series_Killed(sd) ==
    {s \in Series : ~SER_FREED(s) /\ ser[s].managed /\ (sd \/ s \notin mark)}
Sweep_Series_Mark ==
    {s \in mark : SER_FREED(s) \/ ~ser[s].managed}
Sweep_Series_Asserts ==
    \A s \in Series : ~SER_FREED(s) /\ ~ser[s].managed => s \notin mark

\* the bytes of the series of the set
RECURSIVE Total_Bytes(_)
Total_Bytes(set) ==
    IF set = {} THEN 0
    ELSE LET s == CHOOSE x \in set : TRUE IN ser[s].total + Total_Bytes(set \ {s})

\* lines 3008-3031, 3042-3066, 3077-3101
Sweep_Gobs_Killed == {g \in GobUnits : gobs[g].used /\ g \notin gob_mark}
Sweep_Libs_Killed == {l \in LibUnits : libs[l].used /\ l \notin lib_mark}
Sweep_Routines_Killed == {r \in RinUnits : rins[r].used /\ r \notin rin_mark}

(***************************************************************************)
(* The reference graph of the heap, as the data structures define it: the  *)
(* nodes are tagged with their pool.                                       *)
(***************************************************************************)
S(s) == <<"ser", s>>
G(g) == <<"gob", g>>
L(l) == <<"lib", l>>
R(r) == <<"rin", r>>

NonNull(set) == set \ {NULL}

\* the nodes a cell refers to
ValRefs(v) ==
    CASE v.type \in {"REB_OBJECT", "REB_PORT", "REB_ERROR"} ->
             {S(x) : x \in NonNull({v.ser, v.aux})}
      [] v.type \in {"REB_BLOCK", "REB_STRING", "REB_BINARY", "REB_WORD"} -> {S(v.ser)}
      [] v.type = "REB_EVENT" -> {S(x) : x \in NonNull({v.ser})}
      [] v.type = "REB_LIBRARY" -> {L(v.ser)} \cup {S(x) : x \in NonNull({v.aux})}
      [] v.type = "REB_GOB" -> {G(v.ser)}
      [] v.type = "REB_STRUCT" -> {S(x) : x \in NonNull({v.ser, v.aux, v.extra})}
      [] v.type = "REB_FUNCTION" ->
             {S(x) : x \in NonNull({v.ser, v.aux})}
             \cup (IF v.class = "FUNC_CLASS_USER" THEN {S(v.extra)} ELSE {R(v.extra)})
      [] OTHER -> {}

\* the nodes a node refers to; the cells of a stack-based varlist whose stack
\* level has been popped are gone (lines 1897-1901)
NodeRefs(n) ==
    CASE n[1] = "ser" ->
             (IF ser[n[2]].stack /\ ~ser[n[2]].accessible THEN {}
              ELSE UNION {ValRefs(ser[n[2]].cells[i]) : i \in 1..Len(ser[n[2]].cells)})
             \cup {S(x) : x \in NonNull({ser[n[2]].link})}
             \cup UNION {{S(x) : x \in NonNull({ser[n[2]].fields[i].fields,
                                                ser[n[2]].fields[i].spec})} :
                             i \in 1..Len(ser[n[2]].fields)}
      [] n[1] = "gob" ->
             LET g == gobs[n[2]] IN
             {S(x) : x \in NonNull({g.pane_ser, g.content, g.data})}
             \cup {G(g.pane[i]) : i \in 1..Len(g.pane)}
             \cup {G(x) : x \in NonNull({g.parent})}
      [] n[1] = "rin" ->
             LET r == rins[n[2]] IN
             {S(x) : x \in NonNull({r.spec, r.ffi_arg_types, r.ffi_arg_structs,
                                    r.extra_mem, r.cb_func, r.fixed_args, r.all_args})}
             \cup {L(x) : x \in NonNull({r.lib})}
      [] OTHER -> {}

\* the nodes a call frame refers to: its source array, the paramlist of its
\* function, its output cell and its context
FrameRefs(f) ==
    {S(x) : x \in NonNull({f.source, f.func, f.context})}
    \cup ValRefs(f.out)
    \cup UNION {ValRefs(f.va[i]) : i \in 1..Len(f.va)}

\* the nodes the roots of Recycle_Core refer to
RootSet ==
    {S(GC_Series_Guard[i]) : i \in 1..Len(GC_Series_Guard)}
    \cup UNION {ValRefs(GC_Value_Guard[i]) : i \in 1..Len(GC_Value_Guard)}
    \cup UNION {ValRefs(TG_Top_Chunk[i]) : i \in 1..Len(TG_Top_Chunk)}
    \cup {S(RootV), S(TaskV)}
    \cup ValRefs(Callback_Error)
    \cup {S(pending[i]) : i \in 1..Len(pending)}
    \cup UNION {FrameRefs(TG_Frame_Stack[i]) : i \in 1..Len(TG_Frame_Stack)}

RECURSIVE Closure(_)
Closure(set) ==
    LET more == set \cup UNION {NodeRefs(n) : n \in set} IN
    IF more = set THEN set ELSE Closure(more)

Reachable == Closure(RootSet)

\* the nodes in use, and of those the ones the collector owns
Allocated ==
    {S(s) : s \in {x \in Series : ser[x].used}}
    \cup {G(g) : g \in {x \in GobUnits : gobs[x].used}}
    \cup {L(l) : l \in {x \in LibUnits : libs[x].used}}
    \cup {R(r) : r \in {x \in RinUnits : rins[x].used}}
Managed == {n \in Allocated : n[1] = "ser" => ser[n[2]].managed}

(***************************************************************************)
(* The initial states: the heap below, in which a few cells, guard entries *)
(* and flags are open.  An initial state fills at most MaxRefs of them.    *)
(***************************************************************************)
Port(c) == Val("REB_PORT", c, NULL, "", NULL)
Error(c) == Val("REB_ERROR", c, NULL, "", NULL)
RoutineFn == Function("FUNC_CLASS_ROUTINE", ParL, ArrC, 1)

\* total is the bytes of the series' data that GC_Ballast was debited for; the
\* series of the initial heap were allocated before the ballast was set
Array(cells) == [used |-> TRUE, managed |-> TRUE, array |-> TRUE, varlist |-> FALSE,
                 link |-> NULL, stack |-> FALSE, accessible |-> TRUE, cells |-> cells,
                 total |-> 0, fields |-> <<>>]
Varlist(keylist, cells) == [Array(cells) EXCEPT !.varlist = TRUE, !.link = keylist]
Binary == [Array(<<>>) EXCEPT !.array = FALSE]
\* the outer struct, and the struct of its second field as a value of its own
StructA == Struct(StuD, ArrB, StuF)
StructB == Struct(StuE, ArrC, StuG)

\* the cells a slot may hold
Cells == {Block(ArrA), Block(ArrB), String(BinD), Port(PortV), Event("EVM_PORT", PortV),
          Event("EVM_DEVICE", PortV), TASK, Library(1, ArrA), RoutineFn, Gob(1),
          StructA, StructB}

Heap(x, p, a, c, b, unmanaged) ==
    [s \in Series |->
        LET node == CASE s = RootV -> Varlist(RootK, <<Val("REB_OBJECT", RootV, NULL, "", NULL), x>>)
                      [] s = TaskV -> Varlist(TaskK, <<Val("REB_OBJECT", TaskV, NULL, "", NULL), NONE>>)
                      [] s = PortV -> Varlist(PortK, <<Port(PortV), p>>)
                      [] s \in {RootK, TaskK, PortK} -> Array(<<TYPESET, TYPESET>>)
                      [] s = ArrA -> Array(<<a>>)
                      [] s = ArrB -> Array(<<Block(ArrC)>>)
                      [] s = ArrC -> Array(<<c>>)
                      [] s = ParL -> Array(<<RoutineFn, TYPESET>>)
                      [] s \in {BinD, PaneS} -> Binary
                      [] s \in {StuD, StuE} -> [Binary EXCEPT !.link = StuB]
                      [] s = StuB -> [Binary EXCEPT !.cells = <<b, NONE>>]
                      [] s = StuF -> [Binary EXCEPT !.fields = <<Field_Rebval(1, TRUE),
                                                                Field_Struct(StuG, ArrC)>>]
                      [] s = StuG -> [Binary EXCEPT !.fields = <<Field_Rebval(2, TRUE)>>]
                      [] OTHER -> FreeSeries
        IN IF s \in unmanaged THEN [node EXCEPT !.managed = FALSE] ELSE node]

\* the varlist of a stack-based context after its stack level has been popped:
\* CONTEXT_FLAG_STACK is set, SERIES_FLAG_ACCESSIBLE is clear, and where its cells
\* were, a trace would find what is left of a block
Popped_Level(node) ==
    [node EXCEPT !.stack = TRUE, !.accessible = FALSE, !.cells[2] = Block(ArrA)]

Gobs0 ==
    [g \in GobUnits |->
        IF g = 1
        THEN [used |-> TRUE, pane_ser |-> PaneS, pane |-> <<2>>, parent |-> NULL,
              content |-> ArrA, ctype |-> "GOBT_DRAW", data |-> PortV, dtype |-> "GOBD_OBJECT"]
        ELSE [used |-> TRUE, pane_ser |-> NULL, pane |-> <<>>, parent |-> 1,
              content |-> BinD, ctype |-> "GOBT_STRING", data |-> NULL, dtype |-> "GOBD_NONE"]]
Libs0 == [l \in LibUnits |-> [used |-> TRUE]]
Rins0 ==
    [r \in RinUnits |->
        [used |-> TRUE, spec |-> ArrC, ffi_arg_types |-> BinD, ffi_arg_structs |-> ArrC,
         extra_mem |-> BinD, callback |-> FALSE, cb_func |-> NULL, variadic |-> FALSE,
         fixed_args |-> NULL, all_args |-> NULL, lib |-> 1]]

Cost(v) == IF v = NONE THEN 0 ELSE 1

\* the frames a chain may hold: a function call at an index or at the end of its
\* source array, one fed by a va_list, one that only guards its array, one whose
\* arguments live in a context
Frames ==
    {Frame(ix, ArrA, <<>>, "CALL_MODE_FUNCTION", ParL, String(BinD), NULL) :
         ix \in {"INDEX", "END_FLAG"}}
    \cup {Frame("VALIST_FLAG", NULL, <<Block(ArrA)>>, "CALL_MODE_FUNCTION", ParL, NONE, NULL),
          Frame("INDEX", ArrA, <<>>, "CALL_MODE_GUARD_ARRAY_ONLY", NULL, NONE, NULL),
          Frame("INDEX", ArrA, <<>>, "CALL_MODE_FUNCTION", ParL, NONE, PortV)}
\* the chains: every va_list frame needs a free unit of the series pool
Chains ==
    {<<>>} \cup {<<f>> : f \in Frames}
    \cup {<<f, g>> : f \in Frames, g \in {h \in Frames : h.indexor # "VALIST_FLAG"}}

\* hist: what the last Recycle_Core call found when it was entered (the nodes
\* reachable, allocated and managed, the series pool, the mark bits, whether the
\* collector was switched off), whether nothing has happened since the last full
\* cycle (clean) and whether the call was entered so (second), how the call went
\* (last), what it returned, and how many operations the evaluator has performed;
\* the pools the running call has swept, in order (swept); whether a request
\* that an early return latched still waits for its cycle (latched); how many
\* disabled spans the evaluator is in (nest); each guard stack as it was before
\* the first push that has not been popped (g0, series stack first) and the
\* number of such pushes (open), and how many pops have undone a push (matched);
\* the arrays the last cycle has pushed on the mark stack, in order (pushed), and
\* the gobs and routines whose references it has walked, in order (visited);
\* how many nodes were in use when the last cycle began to mark, the arrays of
\* the reified va_lists among them (before); the budget and the ballast that
\* the epilogue of the last cycle found (budget, ballast)
Hist0 == [reach |-> {}, alloc |-> {}, managed |-> {}, ser |-> <<>>, marks |-> <<>>,
          off |-> FALSE, clean |-> FALSE, second |-> FALSE, last |-> "none",
          returned |-> 0, ops |-> 0, swept |-> <<>>, latched |-> FALSE, nest |-> 0,
          g0 |-> <<<<>>, <<>>>>, open |-> <<0, 0>>, matched |-> 0, pushed |-> <<>>,
          visited |-> <<>>,
          before |-> 0, budget |-> 0, ballast |-> 0]

\* the evaluator runs none of the routines the model follows
NoCall == [fn |-> "none", at |-> "none", holds |-> {}, args |-> NULL, body |-> NULL,
           spec |-> NULL, entry |-> <<0, 0>>, passed |-> <<>>, exit |-> "none"]
\* no pointer is looked at
NoTarget == [kind |-> "free", bits |-> 0, class |-> {}]

\* the initial states that fill at most refs of the open places
InitUpTo(refs) ==
    /\ NDEBUG \in BOOLEAN
    /\ \E sw \in {<<TRUE, 0>>, <<FALSE, 0>>} \cup {<<TRUE, n>> : n \in 1..MaxDisable},
          unmanaged \in {{}, {ArrA}, {ArrB}, {BinD}, {PortV}},
          popped \in {{}, {PortV}} :
       LET n1 == (IF sw = <<TRUE, 0>> THEN 0 ELSE 1) + Cardinality(unmanaged)
                 + Cardinality(popped) IN
       /\ n1 <= refs
       /\ GC_Active = sw[1]
       /\ GC_Disabled = sw[2]
       /\ \E sg \in {<<>>, <<ArrA>>, <<PortV>>, <<BinD>>},
             ch \in {<<>>, <<Block(ArrA)>>, <<String(BinD)>>},
             ce \in {NONE, Error(PortV)},
             pe \in {<<>>, <<PortV>>},
             fs \in Chains :
          LET n2 == n1 + Len(sg) + Len(ch) + Cost(ce) + Len(pe) + Len(fs) IN
          /\ n2 <= refs
          /\ TG_Frame_Stack = fs
          /\ GC_Series_Guard = sg
          /\ TG_Top_Chunk = ch
          /\ Callback_Error = ce
          /\ pending = pe
          /\ \E p \in {NONE, Block(ArrA), String(BinD)},
                c \in {NONE, Block(ArrA), Block(ArrC)},
                b \in {NONE, StructA} :
             LET n3 == n2 + Cost(p) + Cost(c) + Cost(b) IN
             /\ n3 <= refs
             /\ \E x \in {v \in Cells \cup {NONE} : n3 + Cost(v) <= refs} :
                \E a \in {v \in Cells \cup {NONE} : n3 + Cost(x) + Cost(v) <= refs} :
                LET n4 == n3 + Cost(x) + Cost(a) IN
                /\ ser = [s \in Series |->
                             IF s \in popped THEN Popped_Level(Heap(x, p, a, c, b, unmanaged)[s])
                             ELSE Heap(x, p, a, c, b, unmanaged)[s]]
                /\ GC_Value_Guard \in
                       {<<>>} \cup {<<v>> : v \in {w \in Cells : n4 + 1 <= refs}}
                       \cup {<<v, w>> : v, w \in {u \in Cells : n4 + 2 <= refs}}
    /\ mark = {} /\ gob_mark = {} /\ lib_mark = {} /\ rin_mark = {}
    /\ pool_free = [series |-> {s \in Series : s > LastUnit}, gob |-> {}, lib |-> {}, rin |-> {}]
    /\ gobs = Gobs0 /\ libs = Libs0 /\ rins = Rins0
    /\ SIG_RECYCLE = FALSE
    /\ GC_Ballast = MEM_BALLAST /\ TASK_BALLAST = MEM_BALLAST
    /\ GC_Mark_Stack = <<>>
    /\ pc = "idle" /\ ret = "idle" /\ idx = 1
    /\ shutdown = FALSE /\ count = 0 /\ depth = [native |-> 0, core |-> 0]
    /\ hist = [Hist0 EXCEPT !.nest = GC_Disabled,
                            !.g0 = <<GC_Series_Guard, GC_Value_Guard>>]

Init == InitUpTo(MaxRefs) /\ call = NoCall /\ target = NoTarget

(***************************************************************************)
(* Recycle_Core, lines 3174-3435, one action per step of its text;         *)
(* no mark hook is installed.                                              *)
(***************************************************************************)
\* the variables a marking step writes, and where the call stands after it
Apply(m, after, i, propagate) ==
    /\ mark' = m.mark
    /\ gob_mark' = m.gob
    /\ lib_mark' = m.lib
    /\ rin_mark' = m.rin
    /\ GC_Mark_Stack' = m.stack
    /\ depth' = m.depth
    /\ pc' = CASE m.out = "panic" -> "panic"
               [] m.out = "ub" -> "ub"
               [] m.out = "overflow" -> "overflow"
               [] m.out = "fail" -> "idle"
               [] propagate /\ m.stack # <<>> -> "propagate"
               [] OTHER -> after
    /\ ret' = after
    /\ idx' = i
    /\ hist' = IF m.out = "fail"
               THEN [hist EXCEPT !.last = "abandoned", !.clean = FALSE,
                                 !.pushed = m.pushed, !.visited = m.visited]
               ELSE [hist EXCEPT !.pushed = m.pushed, !.visited = m.visited]

\* the guard loop that has an entry left at or after entry i of loop p
LoopNext(p, i) ==
    IF p = "series_guard" /\ i <= Len(GC_Series_Guard) THEN <<"series_guard", i>>
    ELSE IF p = "series_guard" /\ GC_Value_Guard # <<>> THEN <<"value_guard", 1>>
    ELSE IF p = "value_guard" /\ i <= Len(GC_Value_Guard) THEN <<"value_guard", i>>
    ELSE <<"chunk", 1>>

\* what hist records when a call is entered
Entered(how, sd) ==
    [hist EXCEPT !.last = how, !.reach = Reachable, !.alloc = Allocated,
                 !.managed = Managed, !.ser = ser,
                 !.marks = <<mark, gob_mark, lib_mark, rin_mark, GC_Mark_Stack>>,
                 !.off = (GC_Disabled > 0 \/ GC_Active = FALSE),
                 !.second = (hist.clean /\ ~sd), !.clean = FALSE, !.swept = <<>>,
                 !.pushed = <<>>, !.visited = <<>>]

\* the sweep that runs after no other
FirstSweep_Series == "sweep_series"

\* line 3367: the first sweep of the sweeping phase
FirstSweep == "sweep_routines"

\* lines 3367-3371: the step that follows the sweep of a pool
SweepAfter(p) ==
    CASE p = "sweep_routines" -> "sweep_series"
      [] p = "sweep_series" -> "sweep_gobs"
      [] p = "sweep_gobs" -> "sweep_libs"
      [] OTHER -> "epilogue"

\* the test without the GC_Active half
GC_Off_Counter == GC_Disabled # 0

\* line 3185: the test that makes the call return at once
GC_Off == GC_Disabled # 0 \/ ~GC_Active

\* lines 3174-3189: the call that returns at once
Recycle_Core_Disabled(sd) ==
    /\ pc = "idle"
    /\ NDEBUG \/ GC_Mark_Stack = <<>>
    /\ GC_Off
    /\ SIG_RECYCLE' = TRUE
    /\ shutdown' = sd
    /\ hist' = [Entered("early", sd) EXCEPT !.returned = 0, !.latched = TRUE]
    /\ UNCHANGED <<NDEBUG, target, call, heap, roots, mark, pool_free, gob_mark, lib_mark, rin_mark,
                   GC_Active, GC_Disabled, ballast, GC_Mark_Stack, pc, ret, idx, count,
                   depth>>

\* what Reify_Va_To_Array_In_Frame makes of frame f: the pending cells of the
\* va_list are in the new array a, and the frame reads them from there
Reify_Va_To_Array_In_Frame(f, a) == [f EXCEPT !.indexor = "INDEX", !.source = a, !.va = <<>>]

RECURSIVE Reify_Frames(_, _)
\* no frame is reified
Reify_Frames_Skipped(r, i) == r

\* lines 3200-3207: the loop over the chain from frame i on; r is the chain, the
\* series pool and its free list
Reify_Frames(r, i) ==
    IF i > Len(r.frames) THEN r
    ELSE IF r.frames[i].indexor # "VALIST_FLAG" THEN Reify_Frames(r, i + 1)
    ELSE LET a == CHOOSE x \in r.free : \A y \in r.free : x <= y IN
         Reify_Frames([frames |-> [r.frames EXCEPT
                                       ![i] = Reify_Va_To_Array_In_Frame(@, a)],
                       ser |-> [r.ser EXCEPT ![a] = Array(r.frames[i].va)],
                       free |-> r.free \ {a}],
                      i + 1)

\* lines 3191-3262: a cycle starts
Start_Cycle(sd) ==
    /\ pc = "idle"
    /\ NDEBUG \/ GC_Mark_Stack = <<>>
    /\ ~GC_Off
    /\ LET r == Reify_Frames([frames |-> TG_Frame_Stack, ser |-> ser,
                              free |-> pool_free.series], 1)
       IN /\ TG_Frame_Stack' = r.frames
          /\ ser' = r.ser
          /\ pool_free' = [pool_free EXCEPT !.series = r.free]
    /\ GC_Disabled' = 1
    /\ shutdown' = sd
    /\ count' = 0
    /\ depth' = [native |-> 1, core |-> 0]
    /\ pc' = IF sd THEN FirstSweep ELSE LoopNext("series_guard", 1)[1]
    /\ idx' = 1
    /\ hist' = [Entered("running", sd) EXCEPT
                    !.before = Cardinality(Allocated)
                               + Cardinality({i \in 1..Len(TG_Frame_Stack) :
                                                 TG_Frame_Stack[i].indexor = "VALIST_FLAG"})]
    /\ UNCHANGED <<NDEBUG, target, call, gobs, libs, rins, GC_Series_Guard, GC_Value_Guard,
                   TG_Top_Chunk, Callback_Error, pending, mark, gob_mark, lib_mark,
                   rin_mark, GC_Active, ballast, GC_Mark_Stack, ret>>

\* lines 3174-3262: the call that starts a cycle
Recycle_Core_Enter(sd) ==
    /\ Start_Cycle(sd)
    /\ UNCHANGED SIG_RECYCLE

\* lines 3270-3277: one entry of the series guard stack
Mark_Series_Guard ==
    /\ pc = "series_guard"
    /\ LET s == GC_Series_Guard[idx]
           nx == LoopNext("series_guard", idx + 1)
           m == IF ser[s].varlist THEN QUEUE_MARK_CONTEXT_DEEP(Marks_Not_In_Mark, s, 1)
                ELSE IF ser[s].array
                     THEN QUEUE_MARK_ARRAY_DEEP(Marks_Not_In_Mark, s, NULL, 1)
                ELSE MARK_SERIES_ONLY(Marks, s, 1)
       IN Apply(m, nx[1], nx[2], TRUE)
    /\ UNCHANGED <<NDEBUG, target, call, heap, roots, pool_free, GC_Active, GC_Disabled, SIG_RECYCLE,
                   ballast, shutdown, count>>

\* lines 3289-3293: one entry of the value guard stack
Mark_Value_Guard ==
    /\ pc = "value_guard"
    /\ LET nx == LoopNext("value_guard", idx + 1)
       IN Apply(Queue_Mark_Value_Deep(Marks, GC_Value_Guard[idx], 2), nx[1], nx[2], TRUE)
    /\ UNCHANGED <<NDEBUG, target, call, heap, roots, pool_free, GC_Active, GC_Disabled, SIG_RECYCLE,
                   ballast, shutdown, count>>

\* lines 3296-3328: the chunk stack; its cells are queued and nothing is propagated
Mark_Chunk_Stack ==
    /\ pc = "chunk"
    /\ Apply(Mark_Cells(Marks, TG_Top_Chunk, 1, 1), "root", 1, FALSE)
    /\ UNCHANGED <<NDEBUG, target, call, heap, roots, pool_free, GC_Active, GC_Disabled, SIG_RECYCLE,
                   ballast, shutdown, count>>

\* line 3333: the root context
Mark_Root_Context ==
    /\ pc = "root"
    /\ Apply(QUEUE_MARK_CONTEXT_DEEP(Marks_Not_In_Mark, RootV, 1), "task", 1, TRUE)
    /\ UNCHANGED <<NDEBUG, target, call, heap, roots, pool_free, GC_Active, GC_Disabled, SIG_RECYCLE,
                   ballast, shutdown, count>>

\* line 3335: the task context
Mark_Task_Context ==
    /\ pc = "task"
    /\ Apply(QUEUE_MARK_CONTEXT_DEEP(Marks_Not_In_Mark, TaskV, 1), "callback_error", 1,
             TRUE)
    /\ UNCHANGED <<NDEBUG, target, call, heap, roots, pool_free, GC_Active, GC_Disabled, SIG_RECYCLE,
                   ballast, shutdown, count>>

\* lines 3338-3339: the callback error
Mark_Callback_Error ==
    /\ pc = "callback_error"
    /\ Apply(Queue_Mark_Value_Deep(Marks, Callback_Error, 2), "devices", 1, TRUE)
    /\ UNCHANGED <<NDEBUG, target, call, heap, roots, pool_free, GC_Active, GC_Disabled, SIG_RECYCLE,
                   ballast, shutdown, count>>

\* the loop of lines 2368-2383 from request i on
RECURSIVE Mark_Requests(_, _, _)
Mark_Requests(m, reqs, i) ==
    IF i > Len(reqs) THEN m
    ELSE Mark_Requests(QUEUE_MARK_CONTEXT_DEEP(m, reqs[i], 2), reqs, i + 1)

\* lines 2368-2383
Mark_Devices_Deep(m) == Mark_Requests(Enter(m, 2), pending, 1)

\* lines 3354-3355: the devices; Mark_Frame_Stack_Deep does nothing when the
\* chain is empty
Mark_Devices ==
    /\ pc = "devices"
    /\ Apply(Mark_Devices_Deep(Marks),
             IF TG_Frame_Stack = <<>> THEN FirstSweep ELSE "frames", 1, TRUE)
    /\ UNCHANGED <<NDEBUG, target, call, heap, roots, pool_free, GC_Active, GC_Disabled, SIG_RECYCLE,
                   ballast, shutdown, count>>

\* lines 2407-2534: one turn of the loop of Mark_Frame_Stack_Deep; a frame that
\* only guards its array leaves what it queued to a later propagation
Mark_Frame_Stack_Deep ==
    /\ pc = "frames"
    /\ LET f == TG_Frame_Stack[idx] IN
       Apply(Mark_Frame(Marks, f, 2),
             IF idx < Len(TG_Frame_Stack) THEN "frames" ELSE "frames_done", idx + 1,
             f.mode # "CALL_MODE_GUARD_ARRAY_ONLY")
    /\ UNCHANGED <<NDEBUG, target, call, heap, roots, pool_free, GC_Active, GC_Disabled, SIG_RECYCLE,
                   ballast, shutdown, count>>

\* line 3360: Mark_Frame_Stack_Deep has returned
Mark_Frames_Done ==
    /\ pc = "frames_done"
    /\ Apply(Marks, FirstSweep, 1, TRUE)
    /\ UNCHANGED <<NDEBUG, target, call, heap, roots, pool_free, GC_Active, GC_Disabled, SIG_RECYCLE,
                   ballast, shutdown, count>>

\* the native call depth of the running Propagate_All_GC_Marks: Recycle_Core
\* calls it, or Mark_Frame_Stack_Deep does
PropagateDepth == IF ret \in {"frames", "frames_done"} THEN 1 + 1 + 1 ELSE 1 + 1

\* lines 3115-3143: one turn of the loop of Propagate_All_GC_Marks
Propagate_All_GC_Marks ==
    /\ pc = "propagate"
    /\ LET elem == GC_Mark_Stack[Len(GC_Mark_Stack)]
           m == [Enter(Marks_Not_In_Mark, PropagateDepth) EXCEPT
                     !.stack = SubSeq(@, 1, Len(@) - 1)]
       IN Apply(Mark_Array_Deep_Core(m, elem, PropagateDepth + 1), ret, idx, TRUE)
    /\ UNCHANGED <<NDEBUG, target, call, heap, roots, pool_free, GC_Active, GC_Disabled, SIG_RECYCLE,
                   ballast, shutdown, count>>

\* line 3367
Sweep_Routines ==
    /\ pc = "sweep_routines"
    /\ rins' = Free_Routine(rins, Sweep_Routines_Killed)
    /\ rin_mark' = {r \in rin_mark : ~rins[r].used}
    /\ pool_free' = [pool_free EXCEPT !.rin = @ \cup Sweep_Routines_Killed]
    /\ count' = Cardinality(Sweep_Routines_Killed)
    /\ pc' = SweepAfter(pc)
    /\ hist' = [hist EXCEPT !.swept = Append(@, pc)]
    /\ UNCHANGED <<NDEBUG, target, call, ser, gobs, libs, roots, mark, gob_mark, lib_mark, GC_Active,
                   GC_Disabled, SIG_RECYCLE, ballast, GC_Mark_Stack, ret, idx, shutdown,
                   depth>>

\* line 3369
Sweep_Series ==
    /\ pc = "sweep_series"
    /\ IF ~NDEBUG /\ ~Sweep_Series_Asserts
       THEN /\ pc' = "panic"
            /\ UNCHANGED <<ser, mark, pool_free, count, GC_Ballast>>
       ELSE /\ ser' = GC_Kill_Series(ser, Sweep_Series_Killed(shutdown))
            /\ mark' = Sweep_Series_Mark
            /\ pool_free' = [pool_free EXCEPT !.series = @ \cup Sweep_Series_Killed(shutdown)]
            /\ count' = count + Cardinality(Sweep_Series_Killed(shutdown))
            /\ GC_Ballast' = GC_Ballast + Total_Bytes(Sweep_Series_Killed(shutdown))
            /\ pc' = SweepAfter(pc)
    /\ hist' = [hist EXCEPT !.swept = Append(@, pc)]
    /\ UNCHANGED <<NDEBUG, target, call, gobs, libs, rins, roots, gob_mark, lib_mark, rin_mark,
                   GC_Active, GC_Disabled, SIG_RECYCLE, TASK_BALLAST, GC_Mark_Stack, ret,
                   idx, shutdown, depth>>

\* line 3370
Sweep_Gobs ==
    /\ pc = "sweep_gobs"
    /\ gobs' = Free_Gob(gobs, Sweep_Gobs_Killed)
    /\ gob_mark' = {g \in gob_mark : ~gobs[g].used}
    /\ pool_free' = [pool_free EXCEPT !.gob = @ \cup Sweep_Gobs_Killed]
    /\ count' = count + Cardinality(Sweep_Gobs_Killed)
    /\ pc' = SweepAfter(pc)
    /\ hist' = [hist EXCEPT !.swept = Append(@, pc)]
    /\ UNCHANGED <<NDEBUG, target, call, ser, libs, rins, roots, mark, lib_mark, rin_mark, GC_Active,
                   GC_Disabled, SIG_RECYCLE, ballast, GC_Mark_Stack, ret, idx, shutdown,
                   depth>>

\* line 3371
Sweep_Libs ==
    /\ pc = "sweep_libs"
    /\ libs' = Free_Node(libs, Sweep_Libs_Killed)
    /\ lib_mark' = {l \in lib_mark : ~libs[l].used}
    /\ pool_free' = [pool_free EXCEPT !.lib = @ \cup Sweep_Libs_Killed]
    /\ count' = count + Cardinality(Sweep_Libs_Killed)
    /\ pc' = SweepAfter(pc)
    /\ hist' = [hist EXCEPT !.swept = Append(@, pc)]
    /\ UNCHANGED <<NDEBUG, target, call, ser, gobs, rins, roots, mark, gob_mark, rin_mark, GC_Active,
                   GC_Disabled, SIG_RECYCLE, ballast, GC_Mark_Stack, ret, idx, shutdown,
                   depth>>

\* the division of C, which truncates towards zero
Quot(a, b) == IF a >= 0 THEN a \div b ELSE -((-a) \div b)

\* the budget without the floor
New_Task_Ballast_Unclamped(tb, gb) ==
    LET bytes_used == tb - gb IN
    IF bytes_used > Quot(tb * 9, 10) THEN Quot(bytes_used * 5, 4)
    ELSE IF bytes_used < Quot(tb * 3, 4) /\ tb > MEM_BALLAST
         THEN Quot(bytes_used * 5, 4)
    ELSE tb

\* lines 3393-3418: the budget after a cycle, from the budget and the ballast
\* before; the amounts of the model are far from the ends of REBI64
New_Task_Ballast(tb, gb) ==
    LET bytes_used == tb - gb IN
    IF bytes_used > Quot(tb * 9, 10) THEN Quot(bytes_used * 5, 4)
    ELSE IF bytes_used < Quot(tb * 3, 4) /\ tb > MEM_BALLAST
         THEN Max(Quot(bytes_used * 5, 4), MEM_BALLAST)
    ELSE tb

\* the ballast set to the new budget
New_GC_Ballast_Reset(gb, tb, budget) == budget

\* lines 3408 and 3417: the ballast after a cycle, from the ballast and the
\* budget before and the budget after
New_GC_Ballast(gb, tb, budget) == gb + (budget - tb)

\* lines 3385-3435: the end of the call
Recycle_Core_Return ==
    /\ pc = "epilogue"
    /\ IF ~NDEBUG /\ GC_Mark_Stack # <<>>
       THEN /\ pc' = "panic"
            /\ UNCHANGED <<ballast, GC_Disabled, hist>>
       ELSE /\ pc' = "idle"
            /\ IF shutdown
               THEN UNCHANGED <<ballast, GC_Disabled>>
               ELSE /\ TASK_BALLAST' = New_Task_Ballast(TASK_BALLAST, GC_Ballast)
                    /\ GC_Ballast' = New_GC_Ballast(GC_Ballast, TASK_BALLAST, TASK_BALLAST')
                    /\ GC_Disabled' = 0
            /\ hist' = [hist EXCEPT !.last = "cycle", !.returned = count,
                                    !.clean = ~shutdown, !.latched = FALSE,
                                    !.budget = TASK_BALLAST, !.ballast = GC_Ballast]
    /\ UNCHANGED <<NDEBUG, target, call, heap, roots, mark, pool_free, gob_mark, lib_mark, rin_mark,
                   GC_Active, SIG_RECYCLE, GC_Mark_Stack, ret, idx, shutdown, count,
                   depth>>

\* line 3182: the assert at the head of Recycle_Core, in a build that has it
Recycle_Core_Assert ==
    /\ pc = "idle"
    /\ ~NDEBUG /\ GC_Mark_Stack # <<>>
    /\ pc' = "panic"
    /\ UNCHANGED <<NDEBUG, target, call, heap, roots, mark, pool_free, gob_mark, lib_mark, rin_mark,
                   GC_Active, GC_Disabled, SIG_RECYCLE, ballast, GC_Mark_Stack, ret, idx,
                   shutdown, count, depth, hist>>

(***************************************************************************)
(* The evaluator, between collections.                                     *)
(***************************************************************************)
Op == [hist EXCEPT !.ops = @ + 1, !.clean = FALSE, !.last = "op"]

\* hist after a push on guard stack k, which was stack before it
Pushed(h, k, stack) ==
    [h EXCEPT !.g0[k] = IF h.open[k] = 0 THEN stack ELSE @, !.open[k] = @ + 1]
\* hist after a pop from guard stack k, which is stack after it
Popped(h, k, stack) ==
    IF h.open[k] > 0 THEN [h EXCEPT !.open[k] = @ - 1, !.matched = @ + 1]
    ELSE [h EXCEPT !.g0[k] = stack]

\* the series and the values the evaluator guards
GuardedSeries == {ArrA, BinD}
GuardedValues == {Block(ArrB), String(BinD)}

\* the new entry goes under the others
Push_Guard_Bottom(stack, x) == <<x>> \o stack

\* lines 3464-3472 and 3498-3506: the store at the tail and the new length.
\* The stacks of the model stay below the 15 entries Init_GC makes room for.
Push_Guard(stack, x) == Append(stack, x)

\* lines 3453-3473
Guard_Series_Core(series) ==
    /\ pc = "idle" /\ hist.ops < MaxOps
    /\ ser[series].used
    /\ IF ~NDEBUG /\ ~ser[series].managed
       THEN /\ pc' = "panic"
            /\ UNCHANGED <<GC_Series_Guard, hist>>
       ELSE /\ GC_Series_Guard' = Push_Guard(GC_Series_Guard, series)
            /\ hist' = Pushed(Op, 1, GC_Series_Guard)
            /\ UNCHANGED pc
    /\ UNCHANGED <<NDEBUG, target, heap, GC_Value_Guard, TG_Top_Chunk, Callback_Error, pending,
                   TG_Frame_Stack, mark, pool_free, gob_mark, lib_mark, rin_mark,
                   GC_Active, GC_Disabled, SIG_RECYCLE, ballast, GC_Mark_Stack, ret, idx,
                   shutdown, count, depth>>

\* lines 3479-3507; the cells the evaluator guards hold valid data
Guard_Value_Core(value) ==
    /\ pc = "idle" /\ hist.ops < MaxOps
    /\ GC_Value_Guard' = Push_Guard(GC_Value_Guard, value)
    /\ hist' = Pushed(Op, 2, GC_Value_Guard)
    /\ UNCHANGED <<NDEBUG, target, call, heap, GC_Series_Guard, TG_Top_Chunk, Callback_Error, pending,
                   TG_Frame_Stack, mark, pool_free, gob_mark, lib_mark, rin_mark,
                   GC_Active, GC_Disabled, SIG_RECYCLE, ballast, GC_Mark_Stack, pc, ret,
                   idx, shutdown, count, depth>>

\* the guard is dropped: the top entry of the series guard stack goes
DROP_GUARD_SERIES ==
    /\ pc = "idle" /\ hist.ops < MaxOps
    /\ GC_Series_Guard # <<>>
    /\ GC_Series_Guard' = SubSeq(GC_Series_Guard, 1, Len(GC_Series_Guard) - 1)
    /\ hist' = Popped(Op, 1, GC_Series_Guard')
    /\ UNCHANGED <<NDEBUG, target, heap, GC_Value_Guard, TG_Top_Chunk, Callback_Error, pending,
                   TG_Frame_Stack, mark, pool_free, gob_mark, lib_mark, rin_mark,
                   GC_Active, GC_Disabled, SIG_RECYCLE, ballast, GC_Mark_Stack, pc, ret,
                   idx, shutdown, count, depth>>

\* the top entry of the value guard stack goes
DROP_GUARD_VALUE ==
    /\ pc = "idle" /\ hist.ops < MaxOps
    /\ GC_Value_Guard # <<>>
    /\ GC_Value_Guard' = SubSeq(GC_Value_Guard, 1, Len(GC_Value_Guard) - 1)
    /\ hist' = Popped(Op, 2, GC_Value_Guard')
    /\ UNCHANGED <<NDEBUG, target, call, heap, GC_Series_Guard, TG_Top_Chunk, Callback_Error, pending,
                   TG_Frame_Stack, mark, pool_free, gob_mark, lib_mark, rin_mark,
                   GC_Active, GC_Disabled, SIG_RECYCLE, ballast, GC_Mark_Stack, pc, ret,
                   idx, shutdown, count, depth>>

\* a span of code that cannot tolerate a collection begins: the nesting counter
\* goes up
Disable_GC ==
    /\ pc = "idle" /\ hist.ops < MaxOps
    /\ GC_Disabled < MaxDisable
    /\ GC_Disabled' = GC_Disabled + 1
    /\ hist' = [Op EXCEPT !.nest = @ + 1]
    /\ UNCHANGED <<NDEBUG, target, call, heap, roots, mark, pool_free, gob_mark, lib_mark, rin_mark,
                   GC_Active, SIG_RECYCLE, ballast, GC_Mark_Stack, pc, ret, idx, shutdown,
                   count, depth>>

\* the span ends: the counter goes down by the one the span added
Enable_GC ==
    /\ pc = "idle" /\ hist.ops < MaxOps
    /\ hist.nest > 0
    /\ GC_Disabled' = GC_Disabled - 1
    /\ hist' = [Op EXCEPT !.nest = @ - 1]
    /\ UNCHANGED <<NDEBUG, target, call, heap, roots, mark, pool_free, gob_mark, lib_mark, rin_mark,
                   GC_Active, SIG_RECYCLE, ballast, GC_Mark_Stack, pc, ret, idx, shutdown,
                   count, depth>>

\* the evaluator reaches a safe point with the pending-collection signal set:
\* it takes the signal and calls Recycle (lines 3443-3447), which returns at
\* once and sets the signal again, or starts a cycle
Do_Signals ==
    /\ SIG_RECYCLE
    /\ \/ Recycle_Core_Disabled(FALSE)
       \/ /\ Start_Cycle(FALSE)
          /\ SIG_RECYCLE' = FALSE

\* the sizes of the series the evaluator makes
Sizes == {MEM_BALLAST \div 3, MEM_BALLAST}

\* a series is allocated: a node leaves the free list, unmanaged, the bytes of
\* its data are debited from GC_Ballast, and a collection is requested when the
\* ballast goes below zero.  One unit of the pool is left to the reification.
Make_Series(size) ==
    /\ pc = "idle" /\ hist.ops < MaxOps
    /\ Cardinality(pool_free.series) > 1
    /\ LET s == CHOOSE x \in pool_free.series : \A y \in pool_free.series : x <= y IN
       /\ ser' = [ser EXCEPT ![s] = [Binary EXCEPT !.managed = FALSE, !.total = size]]
       /\ pool_free' = [pool_free EXCEPT !.series = @ \ {s}]
    /\ GC_Ballast' = GC_Ballast - size
    /\ SIG_RECYCLE' = (SIG_RECYCLE \/ GC_Ballast' < 0)
    /\ hist' = Op
    /\ UNCHANGED <<NDEBUG, target, call, gobs, libs, rins, roots, mark, gob_mark, lib_mark, rin_mark,
                   GC_Active, GC_Disabled, TASK_BALLAST, GC_Mark_Stack, pc, ret, idx,
                   shutdown, count, depth>>

\* the evaluator frees a series it has made and not handed to the collector:
\* the node goes back on the free list and its bytes to GC_Ballast
Free_Series(s) ==
    /\ pc = "idle" /\ hist.ops < MaxOps
    /\ ser[s].used /\ ~ser[s].managed /\ S(s) \notin Reachable /\ s \notin mark
    /\ ser' = [ser EXCEPT ![s] = FreeSeries]
    /\ pool_free' = [pool_free EXCEPT !.series = @ \cup {s}]
    /\ GC_Ballast' = GC_Ballast + ser[s].total
    /\ hist' = Op
    /\ UNCHANGED <<NDEBUG, target, call, gobs, libs, rins, roots, mark, gob_mark, lib_mark, rin_mark,
                   GC_Active, GC_Disabled, SIG_RECYCLE, TASK_BALLAST, GC_Mark_Stack, pc,
                   ret, idx, shutdown, count, depth>>

\* lines 3546-3551: the guard stacks and the mark stack are freed; the model
\* keeps what they held
Shutdown_GC ==
    /\ pc = "idle"
    /\ pc' = "shut"
    /\ hist' = [hist EXCEPT !.last = "shutdown"]
    /\ UNCHANGED <<NDEBUG, target, call, heap, roots, mark, pool_free, gob_mark, lib_mark, rin_mark,
                   GC_Active, GC_Disabled, SIG_RECYCLE, ballast, GC_Mark_Stack, ret, idx,
                   shutdown, count, depth>>

\* a series is handed to the collector: the managed flag is set, for good
Manage_Series(s) ==
    /\ pc = "idle" /\ hist.ops < MaxOps
    /\ ser[s].used /\ ~ser[s].managed
    /\ ser' = [ser EXCEPT ![s].managed = TRUE]
    /\ hist' = Op
    /\ UNCHANGED <<NDEBUG, target, call, gobs, libs, rins, roots, mark, pool_free, gob_mark, lib_mark,
                   rin_mark, GC_Active, GC_Disabled, SIG_RECYCLE, ballast, GC_Mark_Stack,
                   pc, ret, idx, shutdown, count, depth>>

Next ==
    \/ \E sd \in BOOLEAN : Recycle_Core_Disabled(sd)
    \/ \E sd \in BOOLEAN : Recycle_Core_Enter(sd)
    \/ Recycle_Core_Assert
    \/ Mark_Series_Guard
    \/ Mark_Value_Guard
    \/ Mark_Chunk_Stack
    \/ Mark_Root_Context
    \/ Mark_Task_Context
    \/ Mark_Callback_Error
    \/ Mark_Devices
    \/ Mark_Frame_Stack_Deep
    \/ Mark_Frames_Done
    \/ Propagate_All_GC_Marks
    \/ Sweep_Routines
    \/ Sweep_Series
    \/ Sweep_Gobs
    \/ Sweep_Libs
    \/ Recycle_Core_Return
    \/ DROP_GUARD_SERIES /\ UNCHANGED call
    \/ DROP_GUARD_VALUE
    \/ \E s \in Series : Manage_Series(s)

Spec == Init /\ [][Next]_vars

(***************************************************************************)
(* The collector with the whole of the evaluator's protocol around it: the *)
(* guard calls, the disabled spans, the pending-collection signal and the  *)
(* shutdown, over the initial states that fill one place fewer.            *)
(***************************************************************************)
InitEval == InitUpTo(MaxRefs - 1) /\ call = NoCall /\ target = NoTarget

NextEval ==
    \/ Next
    \/ \E series \in GuardedSeries : Guard_Series_Core(series) /\ UNCHANGED call
    \/ \E value \in GuardedValues : Guard_Value_Core(value)
    \/ Disable_GC
    \/ Enable_GC
    \/ Do_Signals
    \/ Shutdown_GC
    \/ \E size \in Sizes : Make_Series(size)
    \/ \E s \in Series : Free_Series(s)

SpecEval == InitEval /\ [][NextEval]_vars

(***************************************************************************)
(* The node header (src/src/include/sys-rebnod.h).  A header is a platform *)
(* word whose flags are counted from the left, so that flag 0 is the top   *)
(* bit of the byte at the lowest address.  The model keeps the HeaderBits  *)
(* leading bits of the word, as a number whose top bit is flag 0.  A       *)
(* pointer points to a free node, to a series node in use, to a value      *)
(* cell, to the info word of a series (which ends the cell held in the     *)
(* node) or to UTF-8 text; all that is known of it are the leading bits.   *)
(***************************************************************************)
\* the leading bits of the header the model keeps: the two leading bytes
HeaderBits == 16

FLAGIT_LEFT(n) == 2 ^ (HeaderBits - 1 - n)
NODE_FLAG_VALID == FLAGIT_LEFT(0)
NODE_FLAG_END == FLAGIT_LEFT(1)
NODE_FLAG_CELL == FLAGIT_LEFT(2)
SERIES_INFO_8_IS_FALSE == FLAGIT_LEFT(8)

Headers == 0..(2 ^ HeaderBits - 1)
Has(h, flag) == (h \div flag) % 2 = 1
\* the leading byte (k = 0) and the one after it (k = 1)
Byte(h, k) == (h \div 2 ^ (HeaderBits - 8 * (k + 1))) % 256

IS_FREE_NODE(h) == h = 0

\* a two-byte start of UTF-8 text that ends with a 0 byte: the empty text (what
\* follows its 0 byte is any byte), a one-byte character and the start of the
\* next, or a leading byte and its first continuation byte
Utf8_Start(b0, b1) ==
    CASE b0 = 0 -> TRUE
      [] b0 \in 1..127 -> b1 \in 0..127 \/ b1 \in 194..244
      [] b0 \in 194..223 -> b1 \in 128..191
      [] b0 = 224 -> b1 \in 160..191
      [] b0 \in (225..236) \cup (238..239) -> b1 \in 128..191
      [] b0 = 237 -> b1 \in 128..159
      [] b0 = 240 -> b1 \in 144..191
      [] b0 \in 241..243 -> b1 \in 128..191
      [] b0 = 244 -> b1 \in 128..143
      [] OTHER -> FALSE

\* the kinds of target, and whether a target of the kind can show the leading
\* bits h
Kinds == {"free", "series", "cell", "end", "text"}
Shows(kind, h) ==
    CASE kind = "free" -> IS_FREE_NODE(h)
      [] kind = "series" ->
             Has(h, NODE_FLAG_VALID) /\ ~Has(h, NODE_FLAG_END) /\ ~Has(h, NODE_FLAG_CELL)
      [] kind = "cell" -> Has(h, NODE_FLAG_VALID) /\ Has(h, NODE_FLAG_CELL)
      [] kind = "end" ->
             /\ Has(h, NODE_FLAG_VALID) /\ Has(h, NODE_FLAG_END) /\ ~Has(h, NODE_FLAG_CELL)
             /\ ~Has(h, SERIES_INFO_8_IS_FALSE)
      [] OTHER -> Utf8_Start(Byte(h, 0), Byte(h, 1))

InitHeader ==
    /\ InitUpTo(0) /\ NDEBUG
    /\ call = NoCall
    /\ \E kind \in Kinds : \E h \in {x \in Headers : Shows(kind, x)} :
           target = [kind |-> kind, bits |-> h, class |-> {}]

\* the leading bits are read: class is every kind of target that can show them
Read_Header ==
    /\ target.class = {}
    /\ target' = [target EXCEPT !.class = {k \in Kinds : Shows(k, target.bits)}]
    /\ UNCHANGED <<NDEBUG, call, heap, roots, mark, pool_free, gob_mark, lib_mark,
                   rin_mark, GC_Active, GC_Disabled, SIG_RECYCLE, ballast, GC_Mark_Stack,
                   pc, ret, idx, shutdown, count, depth, hist>>

NextHeader == Read_Header

SpecHeader == InitHeader /\ [][NextHeader]_vars

(***************************************************************************)
(* The routines of the evaluator that manage and guard arrays of their     *)
(* own: Do_Closure_Throws, Make_Function with Check_Func_Spec and          *)
(* Clonify_Function (n-reduce.c), Do_Eval_Rule (unnamed/part_001) and      *)
(* Make_Guarded_Arg123_Error (unnamed/part_000).  One of them runs, from   *)
(* its entry to its exit, cut at the calls it makes: call.at names the     *)
(* call it is about to make, and while that call is one that allocates or  *)
(* evaluates, a cycle of the collector may run inside it.  call.holds are  *)
(* the arrays the routine has in its locals and goes on to use, call.entry *)
(* the lengths of the guard stacks when it was entered, call.passed what   *)
(* it has passed to Guard_Series_Core, call.exit how it was left: by       *)
(* return, by a throw (the thrown return path) or by fail (a longjmp to    *)
(* the trap that is waiting, which runs no code of the routine).           *)
(***************************************************************************)
\* a user function, its paramlist ParL, spec ArrC and body ArrB
UserFn == Function("FUNC_CLASS_USER", ParL, ArrC, ArrB)
\* the arglist that the call of a closure owns: an array that is not managed
ArgL == PaneS + 1
\* the frame of the native or closure that is running: its output cell is
\* not yet written
CallFrame == Frame("INDEX", ArrA, <<>>, "CALL_MODE_FUNCTION", ParL, NONE, NULL)

\* the heap of the running call: the root context holds the function
CallHeap ==
    [s \in Series |->
        CASE s = ParL -> Array(<<UserFn, TYPESET>>)
          [] s = ArrB -> Array(<<Word("relative", ParL)>>)
          [] s = ArgL -> [Array(<<NONE, NONE>>) EXCEPT !.managed = FALSE]
          [] s > ArgL -> FreeSeries
          [] OTHER -> Heap(UserFn, NONE, NONE, NONE, NONE, {})[s]]

Routines == {"Do_Closure_Throws", "Make_Function", "Clonify_Function", "Do_Eval_Rule",
             "Make_Guarded_Arg123_Error", "Make_Native"}
\* the first call each routine makes
Entry(fn) ==
    CASE fn = "Do_Closure_Throws" -> "manage"
      [] fn = "Make_Function" -> "copy_spec"
      [] fn = "Clonify_Function" -> "copy_paramlist"
      [] fn = "Do_Eval_Rule" -> "make_array"
      [] fn = "Make_Native" -> "check_spec"
      [] OTHER -> "copy_context"
\* the calls that allocate, or evaluate code that does
Allocating == {"copy_spec", "check_spec", "copy_body", "copy_paramlist", "make_array",
               "copy_context", "do"}

InitCall ==
    /\ NDEBUG \in BOOLEAN
    /\ ser = CallHeap
    /\ pool_free = [series |-> {s \in Series : ~CallHeap[s].used}, gob |-> {}, lib |-> {},
                    rin |-> {}]
    /\ gobs = Gobs0 /\ libs = Libs0 /\ rins = Rins0
    /\ TG_Frame_Stack = <<CallFrame>>
    /\ GC_Series_Guard \in {<<>>, <<BinD>>}
    /\ GC_Value_Guard \in {<<>>, <<Block(ArrA)>>}
    /\ TG_Top_Chunk \in {<<>>, <<String(BinD)>>}
    /\ Callback_Error = NONE
    /\ pending \in {<<>>, <<PortV>>}
    /\ GC_Active = TRUE /\ GC_Disabled = 0 /\ SIG_RECYCLE = FALSE
    /\ GC_Ballast = MEM_BALLAST /\ TASK_BALLAST = MEM_BALLAST
    /\ mark = {} /\ gob_mark = {} /\ lib_mark = {} /\ rin_mark = {}
    /\ GC_Mark_Stack = <<>>
    /\ pc = "idle" /\ ret = "idle" /\ idx = 1
    /\ shutdown = FALSE /\ count = 0 /\ depth = [native |-> 0, core |-> 0]
    /\ hist = [Hist0 EXCEPT !.g0 = <<GC_Series_Guard, GC_Value_Guard>>]
    /\ target = NoTarget
    /\ \E fn \in Routines :
           call = [NoCall EXCEPT !.fn = fn, !.at = Entry(fn),
                                 !.entry = <<Len(GC_Series_Guard), Len(GC_Value_Guard)>>]

\* what no step of a routine writes
aside == <<NDEBUG, target, gobs, libs, rins, GC_Value_Guard, TG_Top_Chunk, Callback_Error,
           pending, mark, gob_mark, lib_mark, rin_mark, GC_Active, GC_Disabled,
           SIG_RECYCLE, ballast, GC_Mark_Stack, ret, idx, shutdown, count, depth>>

\* the routine stands before the call named at, and no array it holds has been
\* freed under it
At(fn, at) ==
    /\ pc = "idle" /\ call.fn = fn /\ call.at = at
    /\ \A a \in call.holds : ~SER_FREED(a)

\* the node the next allocation takes from the free list
Next_Free == CHOOSE x \in pool_free.series : \A y \in pool_free.series : x <= y

\* an array is allocated with the cells given; it is managed or not
Make_Array(cells, managed) ==
    /\ pool_free.series # {}
    /\ ser' = [ser EXCEPT ![Next_Free] = [Array(cells) EXCEPT !.managed = managed]]
    /\ pool_free' = [pool_free EXCEPT !.series = @ \ {Next_Free}]

\* the routine is left
Exit(how) == [call EXCEPT !.at = "done", !.holds = {}, !.exit = how]

\* the routine goes on with an array that a cycle has freed under it: what it
\* reads and writes through the dangling pointer is not defined
Use_After_Free ==
    /\ pc = "idle" /\ call.at # "done"
    /\ \E a \in call.holds : SER_FREED(a)
    /\ pc' = "ub"
    /\ call' = Exit("ub")
    /\ UNCHANGED <<aside, ser, pool_free, TG_Frame_Stack, GC_Series_Guard, hist>>

\* PUSH_GUARD_SERIES and PUSH_GUARD_ARRAY of the array in call.body
Push_Guard_Body(fn, after) ==
    /\ At(fn, "guard")
    /\ Guard_Series_Core(call.body)
    /\ call' = [call EXCEPT !.at = after,
                            !.passed = Append(@, [series |-> call.body,
                                                  managed |-> ser[call.body].managed])]

\* the guarded call returns, by return or by a throw, and the guard is dropped;
\* or it fails, and the longjmp passes over the drop
Leave_Guarded(fn, how) ==
    /\ At(fn, "do")
    /\ IF how = "fail"
       THEN UNCHANGED <<ser, pool_free, GC_Series_Guard, pc, hist, NDEBUG, target, gobs,
                        libs, rins, GC_Value_Guard, TG_Top_Chunk, Callback_Error, pending,
                        TG_Frame_Stack, mark, gob_mark, lib_mark, rin_mark, GC_Active,
                        GC_Disabled, SIG_RECYCLE, ballast, GC_Mark_Stack, ret, idx,
                        shutdown, count, depth>>
       ELSE DROP_GUARD_SERIES
    /\ call' = Exit(how)

\* Do_Closure_Throws, lines 1474-1516: the arglist becomes the varlist of the
\* call's context and is managed
Do_Closure_Throws_Manage ==
    /\ At("Do_Closure_Throws", "manage")
    /\ IF ~NDEBUG /\ ~ser[ParL].managed
       THEN pc' = "panic" /\ UNCHANGED <<ser, call>>
       ELSE /\ ser' = [ser EXCEPT ![ArgL] = [@ EXCEPT !.varlist = TRUE, !.link = ParL,
                                                      !.cells[1] = Object(ArgL),
                                                      !.managed = TRUE]]
            /\ call' = [call EXCEPT !.at = "copy_body", !.args = ArgL, !.holds = {ArgL}]
            /\ UNCHANGED pc
    /\ UNCHANGED <<aside, pool_free, TG_Frame_Stack, GC_Series_Guard, hist>>

\* lines 1522-1528: the body is copied, managed, and its words are bound to the
\* call's context
Do_Closure_Throws_Copy_Body ==
    /\ At("Do_Closure_Throws", "copy_body")
    /\ Make_Array(<<Word("bound", call.args)>>, TRUE)
    /\ call' = [call EXCEPT !.at = "guard", !.body = Next_Free, !.holds = @ \cup {Next_Free}]
    /\ UNCHANGED <<aside, TG_Frame_Stack, GC_Series_Guard, pc, hist>>

\* line 1535
Do_Closure_Throws_Guard ==
    /\ Push_Guard_Body("Do_Closure_Throws", "do")

\* lines 1537-1566: Do_At_Throws and what follows it
Do_Closure_Throws_Do(how) ==
    /\ Leave_Guarded("Do_Closure_Throws", how)

\* Make_Function, lines 922-1101: the spec is copied, managed, and stored in the
\* payload of the output cell, whose header is not yet that of a function
Make_Function_Copy_Spec ==
    /\ At("Make_Function", "copy_spec")
    /\ Make_Array(<<NONE>>, TRUE)
    /\ call' = [call EXCEPT !.at = "check_spec", !.spec = Next_Free, !.holds = {Next_Free}]
    /\ UNCHANGED <<aside, TG_Frame_Stack, GC_Series_Guard, pc, hist>>

\* line 1107, Check_Func_Spec (lines 596-753): the keylist is collected from the
\* spec and managed, or the spec is bad and the routine fails
Check_Func_Spec(how) ==
    /\ At("Make_Function", "check_spec")
    /\ IF how = "fail"
       THEN /\ call' = Exit("fail")
            /\ UNCHANGED <<ser, pool_free>>
       ELSE /\ Make_Array(<<NONE, TYPESET>>, TRUE)
            /\ call' = [call EXCEPT !.at = "copy_body", !.args = Next_Free,
                                    !.holds = @ \cup {Next_Free}]
    /\ UNCHANGED <<aside, TG_Frame_Stack, GC_Series_Guard, pc, hist>>

\* lines 1112-1117: the body is copied, managed
Make_Function_Copy_Body ==
    /\ At("Make_Function", "copy_body")
    /\ Make_Array(<<Word("relative", call.args)>>, TRUE)
    /\ call' = [call EXCEPT !.at = "finish", !.body = Next_Free, !.holds = @ \cup {Next_Free}]
    /\ UNCHANGED <<aside, TG_Frame_Stack, GC_Series_Guard, pc, hist>>

\* lines 1141-1161: the header of the output cell is set, and the cell is copied
\* to the head of the paramlist
Make_Function_Finish ==
    /\ At("Make_Function", "finish")
    /\ LET out == Function("FUNC_CLASS_USER", call.args, call.spec, call.body) IN
       /\ TG_Frame_Stack' = [TG_Frame_Stack EXCEPT ![1].out = out]
       /\ ser' = [ser EXCEPT ![call.args].cells[1] = out]
    /\ call' = Exit("return")
    /\ UNCHANGED <<aside, pool_free, GC_Series_Guard, pc, hist>>

\* Clonify_Function, lines 1206-1209, on the function in the root context: the
\* copy of the paramlist is stored in the value, and managed
Clonify_Function_Copy_Paramlist ==
    /\ At("Clonify_Function", "copy_paramlist")
    /\ pool_free.series # {}
    /\ LET value == ser[RootV].cells[2] IN
       ser' = [ser EXCEPT ![Next_Free] = Array(ser[value.ser].cells),
                          ![RootV].cells[2] = [value EXCEPT !.ser = Next_Free]]
    /\ pool_free' = [pool_free EXCEPT !.series = @ \ {Next_Free}]
    /\ call' = [call EXCEPT !.at = "copy_body", !.args = Next_Free, !.holds = {Next_Free}]
    /\ UNCHANGED <<aside, TG_Frame_Stack, GC_Series_Guard, pc, hist>>

\* lines 1211-1221 without line 1235: the head of the new paramlist keeps the
\* value it was copied with
Clonify_Function_Copy_Body_Only ==
    /\ At("Clonify_Function", "copy_body")
    /\ pool_free.series # {}
    /\ LET value == [ser[RootV].cells[2] EXCEPT !.extra = Next_Free] IN
       ser' = [ser EXCEPT ![Next_Free] = Array(<<Word("relative", call.args)>>),
                          ![RootV].cells[2] = value]
    /\ pool_free' = [pool_free EXCEPT !.series = @ \ {Next_Free}]
    /\ call' = Exit("return")
    /\ UNCHANGED <<aside, TG_Frame_Stack, GC_Series_Guard, pc, hist>>

\* lines 1211-1235: the body is copied, managed, and rebound, and the value is
\* copied to the head of its new paramlist
Clonify_Function_Copy_Body ==
    /\ At("Clonify_Function", "copy_body")
    /\ pool_free.series # {}
    /\ LET value == [ser[RootV].cells[2] EXCEPT !.extra = Next_Free] IN
       ser' = [ser EXCEPT ![Next_Free] = Array(<<Word("relative", call.args)>>),
                          ![call.args].cells[1] = value,
                          ![RootV].cells[2] = value]
    /\ pool_free' = [pool_free EXCEPT !.series = @ \ {Next_Free}]
    /\ call' = Exit("return")
    /\ UNCHANGED <<aside, TG_Frame_Stack, GC_Series_Guard, pc, hist>>

\* Make_Native, lines 761-763: the spec is managed already (the spec of the
\* function in the root context stands for it); Check_Func_Spec collects the
\* keylist from it, or fails
Make_Native_Check_Spec(how) ==
    /\ At("Make_Native", "check_spec")
    /\ IF how = "fail"
       THEN /\ call' = Exit("fail")
            /\ UNCHANGED <<ser, pool_free>>
       ELSE /\ Make_Array(<<NONE, TYPESET>>, TRUE)
            /\ call' = [call EXCEPT !.at = "finish", !.spec = ArrC, !.args = Next_Free,
                                    !.holds = {Next_Free}]
    /\ UNCHANGED <<aside, TG_Frame_Stack, GC_Series_Guard, pc, hist>>

\* lines 765-773: the code pointer and the header are set, and the cell is
\* copied to the head of the paramlist
Make_Native_Finish ==
    /\ At("Make_Native", "finish")
    /\ LET out == Function("FUNC_CLASS_NATIVE", call.args, call.spec, NULL) IN
       /\ TG_Frame_Stack' = [TG_Frame_Stack EXCEPT ![1].out = out]
       /\ ser' = [ser EXCEPT ![call.args].cells[1] = out]
    /\ call' = Exit("return")
    /\ UNCHANGED <<aside, pool_free, GC_Series_Guard, pc, hist>>

\* Do_Eval_Rule, part_001 lines 804-810: the value is copied into a block of its
\* own, which Make_Array returns unmanaged
Do_Eval_Rule_Make_Array ==
    /\ At("Do_Eval_Rule", "make_array")
    /\ Make_Array(<<NONE>>, FALSE)
    /\ call' = [call EXCEPT !.at = "guard", !.body = Next_Free, !.holds = {Next_Free}]
    /\ UNCHANGED <<aside, TG_Frame_Stack, GC_Series_Guard, pc, hist>>

\* part_001 line 812
Do_Eval_Rule_Guard ==
    /\ Push_Guard_Body("Do_Eval_Rule", "do")

\* part_001 lines 813-823: Parse_Next_Array and what follows it
Do_Eval_Rule_Parse(how) ==
    /\ Leave_Guarded("Do_Eval_Rule", how)

\* Make_Guarded_Arg123_Error, part_000 lines 148-169: the error context is
\* copied with a keylist of its own; its varlist is not managed yet
Make_Guarded_Arg123_Error_Copy ==
    /\ At("Make_Guarded_Arg123_Error", "copy_context")
    /\ Cardinality(pool_free.series) >= 2
    /\ LET keylist == Next_Free
           varlist == CHOOSE x \in pool_free.series \ {keylist} :
                          \A y \in pool_free.series \ {keylist} : x <= y
       IN /\ ser' = [ser EXCEPT
                        ![keylist] = Array(<<NONE, TYPESET>>),
                        ![varlist] = [Varlist(keylist, <<Error(varlist), NONE>>)
                                         EXCEPT !.managed = FALSE]]
          /\ pool_free' = [pool_free EXCEPT !.series = @ \ {keylist, varlist}]
          /\ call' = [call EXCEPT !.at = "manage", !.body = varlist, !.holds = {varlist}]
    /\ UNCHANGED <<aside, TG_Frame_Stack, GC_Series_Guard, pc, hist>>

\* part_000 line 171
Make_Guarded_Arg123_Error_Manage ==
    /\ At("Make_Guarded_Arg123_Error", "manage")
    /\ ser' = [ser EXCEPT ![call.body].managed = TRUE]
    /\ call' = [call EXCEPT !.at = "guard"]
    /\ UNCHANGED <<aside, pool_free, TG_Frame_Stack, GC_Series_Guard, pc, hist>>

\* part_000 lines 172-173: the guard is pushed and left to the caller
Make_Guarded_Arg123_Error_Guard ==
    /\ Push_Guard_Body("Make_Guarded_Arg123_Error", "done")

\* a cycle runs inside the call the routine is making
Recycle_In_Call ==
    /\ call.at \in Allocating
    /\ Recycle_Core_Enter(FALSE)

\* lines 3182-3189, entered while a cycle is running (from an allocation the
\* cycle makes, or from the host's mark hook): GC_Disabled is 1 since line 3210,
\* so the call sets the signal and returns 0, if the assert of line 3182 lets it
Recycle_Core_Nested ==
    /\ pc \in {"series_guard", "value_guard", "chunk", "root", "task", "callback_error",
               "devices", "frames", "frames_done", "propagate"}
    /\ GC_Off
    /\ IF ~NDEBUG /\ GC_Mark_Stack # <<>>
       THEN /\ pc' = "panic"
            /\ hist' = [hist EXCEPT !.last = "nested"]
            /\ UNCHANGED SIG_RECYCLE
       ELSE /\ SIG_RECYCLE' = TRUE
            /\ hist' = [hist EXCEPT !.last = "nested", !.returned = 0]
            /\ UNCHANGED pc
    /\ UNCHANGED <<NDEBUG, target, call, heap, roots, mark, pool_free, gob_mark, lib_mark,
                   rin_mark, GC_Active, GC_Disabled, ballast, GC_Mark_Stack, ret, idx,
                   shutdown, count, depth>>

Outcomes == {"return", "throw", "fail"}

NextCall ==
    \/ Do_Closure_Throws_Manage
    \/ Do_Closure_Throws_Copy_Body
    \/ Do_Closure_Throws_Guard
    \/ \E how \in Outcomes : Do_Closure_Throws_Do(how)
    \/ Make_Function_Copy_Spec
    \/ \E how \in {"return", "fail"} : Check_Func_Spec(how)
    \/ Make_Function_Copy_Body
    \/ Make_Function_Finish
    \/ Clonify_Function_Copy_Paramlist
    \/ Clonify_Function_Copy_Body
    \/ \E how \in {"return", "fail"} : Make_Native_Check_Spec(how)
    \/ Make_Native_Finish
    \/ Do_Eval_Rule_Make_Array
    \/ Do_Eval_Rule_Guard
    \/ \E how \in Outcomes : Do_Eval_Rule_Parse(how)
    \/ Make_Guarded_Arg123_Error_Copy
    \/ Make_Guarded_Arg123_Error_Manage
    \/ Make_Guarded_Arg123_Error_Guard
    \/ Use_After_Free
    \/ Recycle_In_Call
    \/ Recycle_Core_Nested
    \/ Mark_Series_Guard
    \/ Mark_Value_Guard
    \/ Mark_Chunk_Stack
    \/ Mark_Root_Context
    \/ Mark_Task_Context
    \/ Mark_Callback_Error
    \/ Mark_Devices
    \/ Mark_Frame_Stack_Deep
    \/ Mark_Frames_Done
    \/ Propagate_All_GC_Marks
    \/ Sweep_Routines
    \/ Sweep_Series
    \/ Sweep_Gobs
    \/ Sweep_Libs
    \/ Recycle_Core_Return

SpecCall == InitCall /\ [][NextCall]_vars

(***************************************************************************)
(* REDUCE/no-set (n-reduce.c 159-191).  A block is a sequence of items: a  *)
(* set-word "a:", a value "1" that evaluates to itself, or an expression   *)
(* "t" that throws.  The routine runs one turn of its loop per step; call  *)
(* holds its arguments and locals, the data stack above dsp_orig, the      *)
(* positions at which an evaluation started (evals) and the positions of   *)
(* the set-words an evaluation has assigned through (assigned).            *)
(***************************************************************************)
MaxBlock == 3
Items == {"a:", "1", "t"}
Blocks == UNION {[1..n -> Items] : n \in 0..MaxBlock}
\* 0x80000000 and 0x80000000 - 0x75 in the source: indexes no array has.  TLC's
\* integers end below 2^31, so the model puts the flags at 2^30
END_FLAG == 2^30
THROWN_FLAG == END_FLAG - 117

\* DO_NEXT_MAY_THROW on the array from index (counted from 0): the value of the
\* next expression, the indexor after it (END_FLAG at the end of the array,
\* THROWN_FLAG when the expression threw), and the set-words it assigned
RECURSIVE DO_NEXT_MAY_THROW(_, _)
DO_NEXT_MAY_THROW(array, index) ==
    LET item == array[index + 1]
        after == IF index + 1 = Len(array) THEN END_FLAG ELSE index + 1
    IN CASE item = "1" -> [indexor |-> after, value |-> <<"value", index>>,
                           assigned |-> <<>>, fail |-> FALSE]
         [] item = "t" -> [indexor |-> THROWN_FLAG, value |-> <<"thrown", index>>,
                           assigned |-> <<>>, fail |-> FALSE]
         [] index + 1 = Len(array) ->
                [indexor |-> index, value |-> <<"error", index>>,
                 assigned |-> <<>>, fail |-> TRUE]
         [] OTHER ->
                LET r == DO_NEXT_MAY_THROW(array, index + 1) IN
                IF r.indexor = THROWN_FLAG \/ r.fail THEN r
                ELSE [r EXCEPT !.assigned = <<index>> \o @]

InitReduce ==
    /\ InitUpTo(0) /\ NDEBUG
    /\ target = NoTarget
    /\ \E block \in Blocks, into \in BOOLEAN :
           call = [fn |-> "Reduce_Array_No_Set_Throws", block |-> block, into |-> into,
                   index |-> 0, indexor |-> 0, stack |-> <<>>, out |-> <<>>,
                   evals |-> <<>>, assigned |-> <<>>, exit |-> "none"]

\* lines 168-190: one turn of the loop, or the end of the routine.  An
\* evaluation that is started at END_FLAG reads far beyond the array: the
\* build may crash there, or find what it takes for the end of an array and
\* go round the loop for ever
Reduce_Array_No_Set_Throws ==
    /\ call.fn = "Reduce_Array_No_Set_Throws" /\ call.exit = "none"
    /\ IF call.index < Len(call.block)
       THEN IF call.block[call.index + 1] = "a:"
            THEN call' = [call EXCEPT !.stack = Append(@, <<"set-word", call.index>>),
                                      !.index = @ + 1]
            ELSE IF call.indexor = END_FLAG
            THEN \E how \in {"crash", "hang"} : call' = [call EXCEPT !.exit = how]
            ELSE LET r == DO_NEXT_MAY_THROW(call.block, call.indexor)
                     c == [call EXCEPT !.indexor = r.indexor,
                                       !.evals = Append(@, call.indexor),
                                       !.assigned = @ \o r.assigned]
                 IN CASE r.fail -> call' = [c EXCEPT !.exit = "fail"]
                      [] r.indexor = THROWN_FLAG ->
                             call' = [c EXCEPT !.out = r.value, !.stack = <<>>,
                                               !.exit = "throw"]
                      [] OTHER -> call' = [c EXCEPT !.stack = Append(@, r.value)]
       ELSE call' = [call EXCEPT !.out = <<IF call.into THEN "REB_MAX" ELSE "REB_BLOCK",
                                           call.stack>>,
                                 !.stack = <<>>, !.exit = "return"]
    /\ UNCHANGED <<aside, ser, pool_free, TG_Frame_Stack, GC_Series_Guard, pc, hist>>

NextReduce == Reduce_Array_No_Set_Throws

SpecReduce == InitReduce /\ [][NextReduce]_vars

(***************************************************************************)
(* PARSE and the throws of its routines (part_001).  call.stack holds the  *)
(* parse routines that are running, innermost last, each with its local    *)
(* cell save; call.out is the cell parse->out, which every REBPARSE of one *)
(* PARSE shares (777, 810, 1224); call.ret is what the routine that has    *)
(* just returned gave back to the one below it.  A cell is trash until it  *)
(* is written, then the plain or thrown result of an evaluation (numbered  *)
(* by call.evals), or the throw by which PARSE returns from itself.        *)
(***************************************************************************)
MaxDepth == 3
MaxEvals == 2
Trash == [kind |-> "trash", of |-> 0]
Evaluated(throws, n) == [kind |-> IF throws THEN "thrown" ELSE "value", of |-> n]
THROWN(cell) == cell.kind \in {"thrown", "parse-return"}
Level(fn) == [fn |-> fn, save |-> Trash]

InitParse ==
    /\ InitUpTo(0)
    /\ target = NoTarget
    /\ call = [fn |-> "Parse_Core", stack |-> <<Level("Parse_Rules_Loop")>>, out |-> Trash,
               ret |-> 0, evals |-> 0, threw |-> 0, exit |-> "none"]

Running(fn) ==
    /\ call.fn = "Parse_Core" /\ call.exit = "none"
    /\ call.stack # <<>> /\ call.stack[Len(call.stack)].fn = fn
Leave(c, gave) == [c EXCEPT !.stack = SubSeq(@, 1, Len(@) - 1), !.ret = gave]
Call_Rule(fn) ==
    /\ Len(call.stack) < MaxDepth
    /\ call' = [call EXCEPT !.stack = Append(@, Level(fn))]
\* DO_ARRAY_THROWS(cell, group) where cell is save or a local named
\* evaluated; given is the cell that the routine then copies to parse->out
DO_ARRAY_THROWS(into_save, given) ==
    /\ call.evals < MaxEvals
    /\ \E throws \in BOOLEAN :
          LET n == call.evals + 1
              top == Len(call.stack)
              c == [call EXCEPT !.evals = n,
                                !.stack[top].save = IF into_save THEN Evaluated(throws, n)
                                                    ELSE @]
          IN IF throws
             THEN call' = Leave([c EXCEPT !.threw = n,
                                          !.out = IF given = "save" THEN c.stack[top].save
                                                  ELSE Evaluated(TRUE, n)],
                                THROWN_FLAG)
             ELSE call' = c
\* a call made by the routine has returned: THROWN_FLAG is passed on
\* (444-445, 783, 816-817, 1233, 1249, 1266, 1284), anything else is used
Returned ==
    /\ call.ret # 0
    /\ call' = IF call.ret = THROWN_FLAG THEN Leave(call, THROWN_FLAG)
               ELSE [call EXCEPT !.ret = 0]
Frame_Unchanged == UNCHANGED <<aside, ser, pool_free, TG_Frame_Stack, GC_Series_Guard, pc, hist>>

\* Parse_Next_Array 302-380 (Parse_Next_String 186-290 has the same two cases)
Parse_Next_Array(how) ==
    /\ Running("Parse_Next_Array")
    /\ IF call.ret # 0 THEN Returned
       ELSE CASE how = "block" -> Call_Rule("Parse_Rules_Loop")
              [] how = "group" -> DO_ARRAY_THROWS(TRUE, "save")
              [] OTHER -> call' = Leave(call, 1)
    /\ Frame_Unchanged

\* To_Thru 386-557
To_Thru(how) ==
    /\ Running("To_Thru")
    /\ IF call.ret # 0 THEN Returned
       ELSE CASE how = "quote" -> DO_ARRAY_THROWS(TRUE, "save")
              [] how = "match" -> Call_Rule("Parse_Next_Array")
              [] how = "found" -> \/ DO_ARRAY_THROWS(FALSE, "evaluated")
                                  \/ call' = Leave(call, 1)
              [] how = "found1" -> \/ DO_ARRAY_THROWS(FALSE, "save")
                                   \/ call' = Leave(call, 1)
              [] OTHER -> call' = Leave(call, 1)
    /\ Frame_Unchanged

\* Do_Eval_Rule 715-823
Do_Eval_Rule(how) ==
    /\ Running("Do_Eval_Rule")
    /\ IF call.ret # 0 THEN Returned
       ELSE CASE how = "do" -> DO_ARRAY_THROWS(FALSE, "value")
              [] how = "quote" -> DO_ARRAY_THROWS(TRUE, "save")
              [] how = "into" -> Call_Rule("Parse_Rules_Loop")
              [] how = "match" -> Call_Rule("Parse_Next_Array")
              [] OTHER -> call' = Leave(call, 1)
    /\ Frame_Unchanged

\* Parse_Rules_Loop 829-1470
Parse_Rules_Loop(how) ==
    /\ Running("Parse_Rules_Loop")
    /\ IF call.ret # 0 THEN Returned
       ELSE CASE how = "group" -> DO_ARRAY_THROWS(FALSE, "evaluated")
              [] how = "quote" -> DO_ARRAY_THROWS(TRUE, "save")
              [] how = "return" ->
                    \/ /\ DO_ARRAY_THROWS(FALSE, "evaluated")
                       /\ call'.ret = THROWN_FLAG
                    \/ call' = Leave([call EXCEPT !.out = [kind |-> "parse-return",
                                                           of |-> call.evals]],
                                     THROWN_FLAG)
              [] how = "to" -> Call_Rule("To_Thru")
              [] how = "do" -> Call_Rule("Do_Eval_Rule")
              [] how = "block" -> Call_Rule("Parse_Rules_Loop")
              [] how = "match" -> Call_Rule("Parse_Next_Array")
              [] OTHER -> call' = Leave(call, 1)
    /\ Frame_Unchanged

\* Parse_Core 1521-1560: Parse_Rules_Loop has returned
Parse_Core ==
    /\ call.fn = "Parse_Core" /\ call.exit = "none" /\ call.stack = <<>>
    /\ call' = [call EXCEPT !.exit = IF call.ret # THROWN_FLAG THEN "return"
                                      ELSE IF ~NDEBUG /\ ~THROWN(call.out) THEN "assert"
                                      ELSE "throw"]
    /\ Frame_Unchanged

NextParse ==
    \/ \E how \in {"block", "group", "return"} : Parse_Next_Array(how)
    \/ \E how \in {"quote", "match", "found", "found1", "return"} : To_Thru(how)
    \/ \E how \in {"do", "quote", "into", "match", "return"} : Do_Eval_Rule(how)
    \/ \E how \in {"group", "quote", "return", "to", "do", "block", "match", "end"} :
          Parse_Rules_Loop(how)
    \/ Parse_Core

SpecParse == InitParse /\ [][NextParse]_vars

(***************************************************************************)
(* COMPOSE (n-reduce.c 285-462).  call.stack holds the running calls of    *)
(* Compose_Values_Throws, innermost last: the flags each was given, what   *)
(* the cell out held when it was called (entry), and how many values it    *)
(* has pushed.  A cell holds "trash" until it is written, then "target",   *)
(* "block" (a new block), "value", "thrown", or "garbage".                 *)
(***************************************************************************)
InitCompose ==
    /\ InitUpTo(0) /\ NDEBUG
    /\ target = NoTarget
    /\ \E deep, only, into, frameless, block \in BOOLEAN :
          call = [fn |-> "compose", deep |-> deep, only |-> only, into |-> into,
                  frameless |-> frameless, block |-> block, D_OUT |-> "trash",
                  stack |-> <<>>, ret |-> "none", exit |-> "none"]

Composing(out, deep, only, into) ==
    [entry |-> out, deep |-> deep, only |-> only, into |-> into, pushed |-> 0]

\* the native, lines 392-462: up to its call of Compose_Values_Throws, and then
\* from that call's return
compose ==
    /\ call.fn = "compose" /\ call.exit = "none" /\ call.stack = <<>>
    /\ IF call.ret # "none"
       THEN call' = [call EXCEPT !.exit = IF call.ret = "thrown" THEN "throw" ELSE call.ret]
       ELSE IF ~call.block
       THEN call' = [call EXCEPT !.D_OUT = "value", !.exit = "return"]
       ELSE IF call.frameless
       THEN call' = [call EXCEPT !.stack = <<Composing(call.D_OUT, FALSE, FALSE, FALSE)>>]
       ELSE LET out == IF call.into THEN "target" ELSE call.D_OUT
            IN call' = [call EXCEPT !.D_OUT = out,
                                    !.stack = <<Composing(out, call.deep, call.only,
                                                          call.into)>>]
    /\ Frame_Unchanged

\* Compose_Values_Throws 293-369: one turn of its loop on a value of the kind
\* how, or the end of the array.  Pop_Stack_Values with REB_MAX inserts into the
\* series that out holds; when out holds none the build may crash or write
\* through whatever the cell happens to hold
Compose_Values_Throws(how) ==
    /\ call.fn = "compose" /\ call.exit = "none" /\ call.stack # <<>>
    /\ LET top == Len(call.stack)
           level == call.stack[top]
           Give(out, gave) == IF top = 1
                              THEN [call EXCEPT !.stack = <<>>, !.D_OUT = out, !.ret = gave]
                              ELSE [call EXCEPT !.stack = SubSeq(@, 1, top - 1), !.ret = gave]
           Push == [call EXCEPT !.stack[top].pushed = @ + 1, !.ret = "none"]
       IN IF call.ret # "none"
          THEN call' = IF call.ret = "return" THEN Push ELSE Give("thrown", call.ret)
          ELSE CASE how = "group" ->
                      /\ level.pushed < MaxBlock
                      /\ \E evaluated \in {"thrown", "block", "value", "unset"} :
                            call' = CASE evaluated = "thrown" -> Give("thrown", "thrown")
                                      [] evaluated = "unset" -> call
                                      [] OTHER -> Push
                 [] how = "block" /\ level.deep ->
                      /\ level.pushed < MaxBlock /\ top < MaxDepth
                      /\ call' = [call EXCEPT !.stack = Append(@,
                                      Composing("trash", TRUE, level.only, level.into))]
                 [] how \in {"block", "other"} ->
                      /\ level.pushed < MaxBlock
                      /\ call' = Push
                 [] OTHER ->
                      IF ~level.into THEN call' = Give("block", "return")
                      ELSE IF level.entry = "target" THEN call' = Give("target", "return")
                      ELSE \/ call' = Give("garbage", "return")
                           \/ call' = Give("trash", "crash")
    /\ Frame_Unchanged

NextCompose ==
    \/ compose
    \/ \E how \in {"group", "block", "other", "end"} : Compose_Values_Throws(how)

SpecCompose == InitCompose /\ [][NextCompose]_vars

(***************************************************************************)
(* The binder (sys-bind.h 62-156).  call.canon is misc.bind_index of the   *)
(* canon word's series node: two signed bit-fields of 16 bits              *)
(* (sys-rebser.h 562-565); call.high and call.count are the binder's       *)
(* fields, count being there in a debug build only.  An index is added,    *)
(* then looked up, then removed.                                           *)
(***************************************************************************)
\* what a REBINT becomes when it is stored in a signed bit-field of 16 bits
Bind_Index(i) == ((i + 32768) % 65536) - 32768
\* the index values tried, and what the half of another client may hold
Indexes == {-65536, -32769, -32768, -2, -1, 1, 2, 3, 32767, 32768, 65535, 65536, 65537}
Others == {0, 1, -7}

\* INIT_BINDER (sys-bind.h 70-75) on a canon that nobody else is binding, or
\* whose halves other binders hold
InitBinder ==
    /\ InitUpTo(0)
    /\ target = NoTarget
    /\ \E h, l \in Others :
          call = [fn |-> "binder", at |-> "add", high |-> TRUE, count |-> 0,
                  canon |-> [high |-> h, low |-> l],
                  index |-> 0, added |-> FALSE, got |-> 0, removed |-> 0, before |-> 0]

\* sys-bind.h 84-106
Try_Add_Binder_Index(index) ==
    /\ call.fn = "binder" /\ call.at = "add"
    /\ LET half == IF call.high THEN "high" ELSE "low"
           c == [call EXCEPT !.index = index, !.before = call.count]
       IN IF call.canon[half] # 0
          THEN call' = [c EXCEPT !.at = "done", !.added = FALSE]
          ELSE call' = [c EXCEPT !.canon[half] = Bind_Index(index),
                                 !.count = IF NDEBUG THEN @ ELSE @ + 1,
                                 !.at = "get", !.added = TRUE]
    /\ Frame_Unchanged

\* sys-bind.h 119-129
Try_Get_Binder_Index ==
    /\ call.fn = "binder" /\ call.at = "get"
    /\ call' = [call EXCEPT !.got = IF call.high THEN call.canon.high ELSE call.canon.low,
                            !.at = "remove"]
    /\ Frame_Unchanged

\* sys-bind.h 132-156
Try_Remove_Binder_Index ==
    /\ call.fn = "binder" /\ call.at = "remove"
    /\ LET half == IF call.high THEN "high" ELSE "low"
           old_index == call.canon[half]
       IN IF old_index = 0
          THEN call' = [call EXCEPT !.removed = 0, !.at = "done"]
          ELSE call' = [call EXCEPT !.canon[half] = 0,
                                    !.count = IF NDEBUG THEN @ ELSE @ - 1,
                                    !.removed = old_index, !.at = "done"]
    /\ Frame_Unchanged

NextBinder ==
    \/ \E index \in Indexes : Try_Add_Binder_Index(index)
    \/ Try_Get_Binder_Index
    \/ Try_Remove_Binder_Index

SpecBinder == InitBinder /\ [][NextBinder]_vars

(***************************************************************************)
(* Properties.                                                             *)
(***************************************************************************)
\* the last Recycle_Core call has just returned, having run a cycle
CycleReturned == pc = "idle" /\ hist.last = "cycle"
\* the pool free list a node belongs on
OnFreeList(n) ==
    CASE n[1] = "ser" -> n[2] \in pool_free.series
      [] n[1] = "gob" -> n[2] \in pool_free.gob
      [] n[1] = "lib" -> n[2] \in pool_free.lib
      [] OTHER -> n[2] \in pool_free.rin
SeriesOf(nodes) == {n \in nodes : n[1] = "ser"}

\* C1: when Recycle_Core(FALSE) returns after a cycle, every managed series that
\* was reachable from the root set when the call was entered is still allocated.
C1_ReachableSurvives ==
    CycleReturned /\ ~shutdown
        => \A n \in SeriesOf(hist.reach \cap hist.managed) : n \in Allocated

\* C2: when Recycle_Core(FALSE) returns after a cycle, every managed node that
\* was not reachable from any root when the call was entered has been freed and
\* is on its pool's free list.
C2_UnreachableFreed ==
    CycleReturned /\ ~shutdown
        => \A n \in hist.managed \ hist.reach : n \notin Allocated /\ OnFreeList(n)

\* C3: a series that has never been given the managed flag is not touched by
\* Recycle_Core: it is not freed, its mark bit is never set and its node is as
\* it was when the call was entered.
C3_UnmanagedUntouched ==
    /\ \A s \in Series : ser[s].used /\ ~ser[s].managed => s \notin mark
    /\ hist.last \in {"early", "running", "cycle"}
           => \A s \in Series :
                  hist.ser[s].used /\ ~hist.ser[s].managed => ser[s] = hist.ser[s]

\* C4: when Recycle_Core(TRUE) returns, no managed node is left in any of the
\* swept pools, whatever GC_Disabled and GC_Active were when it was called.
C4_ShutdownFreesAll ==
    pc = "idle" /\ hist.last \in {"early", "cycle"} /\ shutdown => Managed = {}

\* C5: at every point of every cycle, a context's varlist has its mark bit only
\* if its keylist has it too.
C5_KeylistMarkedWithVarlist ==
    \A c \in Series :
        ser[c].used /\ ser[c].varlist /\ c \in mark => CTX_KEYLIST(c) \in mark

\* C6: every cycle Recycle_Core starts runs to completion: it is never left
\* before the sweep, with marks and worklist entries behind.
C6_CycleCompletes == hist.last # "abandoned"

\* the depth Mark_Array_Deep_Core runs at when Propagate_All_GC_Marks calls it
\* from Mark_Frame_Stack_Deep, its deepest caller, and the deepest nesting of the
\* marking routines: a cell of a popped array, then either the gobs one inside
\* the other and the push, or a struct, its field, the value cell of the field
\* and the struct in that cell
CoreDepth == 1 + 1 + 1 + 1
MarkDepth == CoreDepth + 1 + Max(Cardinality(GobUnits) + 1, 1 + 1 + 1 + 1)

\* C7: the native call depth of marking is bounded by a constant: an array is
\* marked and pushed on GC_Mark_Stack, and its cells are traced only by the
\* call Propagate_All_GC_Marks makes when it pops the array, never by a call
\* nested in the tracing of another array.
C7_MarkDepthBounded ==
    /\ depth.core <= CoreDepth
    /\ depth.native <= MarkDepth
\* a chain of arrays, ArrA holding ArrB holding ArrC, has been marked to its end
\* from a call frame whose source array is ArrA
C7_ChainMarked ==
    /\ TG_Frame_Stack # <<>> /\ TG_Frame_Stack[1].source = ArrA
    /\ TG_Frame_Stack[1].indexor = "INDEX"
    /\ ser[ArrA].used /\ ser[ArrA].cells = <<Block(ArrB)>>
    /\ ser[ArrB].used /\ ser[ArrB].cells = <<Block(ArrC)>>
    /\ {ArrA, ArrB, ArrC} \subseteq mark
    /\ pc = "frames_done"
    /\ depth.core = CoreDepth

\* C8: a Recycle_Core(FALSE) call entered right after a full cycle, with nothing
\* allocated, mutated or unrooted in between, frees nothing and returns 0.
C8_SecondCycleFreesNothing ==
    CycleReturned /\ hist.second
        => hist.returned = 0 /\ Allocated = hist.alloc /\ ser = hist.ser
\* C9: when Recycle_Core(FALSE) returns after a cycle, no node that survives in
\* a swept pool (series, gobs, libraries, routines) has its mark bit set.
C9_NoMarkSurvives ==
    CycleReturned /\ ~shutdown
        => /\ \A s \in Series : ser[s].used => s \notin mark
           /\ \A g \in GobUnits : gobs[g].used => g \notin gob_mark
           /\ \A l \in LibUnits : libs[l].used => l \notin lib_mark
           /\ \A r \in RinUnits : rins[r].used => r \notin rin_mark

C11_LatchedRequestHonoured == pc = "idle" /\ hist.latched => SIG_RECYCLE

\* the mark phase of a cycle is active
MarkPhase ==
    pc \in {"series_guard", "value_guard", "chunk", "root", "task", "callback_error",
            "devices", "frames", "frames_done", "propagate"}
\* the sweeping phase and the epilogue of a cycle
SweepPhase == pc \in {"sweep_routines", "sweep_series", "sweep_gobs", "sweep_libs", "epilogue"}

\* C12: while a mark phase is active in_mark is set, so that the assert at the
\* head of MARK_ARRAY_DEEP, MARK_CONTEXT_DEEP and Propagate_All_GC_Marks fails
\* and aborts when one of them is entered again.
C12_MarkPhaseSetsInMark == MarkPhase => in_mark

AllMarked(nodes) ==
    \A n \in Closure(nodes) :
        CASE n[1] = "ser" -> n[2] \in mark
          [] n[1] = "gob" -> n[2] \in gob_mark
          [] n[1] = "lib" -> n[2] \in lib_mark
          [] OTHER -> n[2] \in rin_mark

\* C14: when the sweep of a non-shutdown cycle begins, for every frame of the
\* call-frame chain the source array, the output cell, the paramlist of the
\* function and the argument cells of a managed frame context are marked, with
\* everything reachable from them, whatever the frame's mode and its position
\* in the source array.
C14_FramesMarked ==
    pc = FirstSweep /\ ~shutdown
        => \A i \in 1..Len(TG_Frame_Stack) :
               LET f == TG_Frame_Stack[i] IN
               AllMarked({S(x) : x \in NonNull({f.source, f.func})}
                         \cup ValRefs(f.out)
                         \cup (IF f.frame_context /\ ser[f.context].managed
                               THEN {S(f.context)} ELSE {}))

\* C15: at every step of the mark phase and of the sweeping phase no frame of
\* the chain has indexor VALIST_FLAG: the frames fed by a va_list were reified
\* before the cycle marked anything.
C15_NoValistInCycle ==
    MarkPhase \/ SweepPhase
        => \A i \in 1..Len(TG_Frame_Stack) : TG_Frame_Stack[i].indexor # "VALIST_FLAG"
\* the loop of Mark_Frame_Stack_Deep is at a frame that reads its input from
\* the array the reification made of its va_list
C15_ValistReified ==
    /\ pc = "frames"
    /\ TG_Frame_Stack[idx].indexor = "INDEX"
    /\ TG_Frame_Stack[idx].source > LastUnit
    /\ ser[TG_Frame_Stack[idx].source].cells = <<Block(ArrA)>>

\* the guard stacks, the series stack first
GuardStacks == <<GC_Series_Guard, GC_Value_Guard>>

\* C16: each guard call adds one entry on top of its own stack and leaves the
\* entries below and the other stack as they were: each stack is what it was
\* before its first unpopped push plus one entry per unpopped push, so when
\* every push has been popped the stack is as long as before the first push.
C16_GuardBalance ==
    \A k \in {1, 2} :
        /\ Len(GuardStacks[k]) = Len(hist.g0[k]) + hist.open[k]
        /\ SubSeq(GuardStacks[k], 1, Len(hist.g0[k])) = hist.g0[k]
\* a guard has been pushed and popped again, and none is outstanding
C16_GuardsMatched ==
    /\ pc = "idle"
    /\ hist.matched > 0
    /\ hist.open = <<0, 0>>

\* C17: when Shutdown_GC is called in a debug build with an entry still on a
\* guard stack, the guard-imbalance assertion fails and the process aborts.
C17_ShutdownDetectsImbalance ==
    ~NDEBUG /\ hist.last = "shutdown" /\ (GC_Series_Guard # <<>> \/ GC_Value_Guard # <<>>)
        => pc = "panic"

C19_NoRecoverableError ==
    pc = "idle" /\ hist.last \in {"cycle", "abandoned"} /\ ~shutdown
        => GC_Disabled = 0 /\ GC_Mark_Stack = <<>>

\* C20: a keylist has its mark bit only if the varlist of its context has it
\* too: the mark phase never marks a keylist on its own.
C20_VarlistMarkedWithKeylist ==
    \A c \in Series :
        ser[c].used /\ ser[c].varlist /\ CTX_KEYLIST(c) \in mark => c \in mark

\* C21: within one cycle each array is pushed on the mark stack at most once,
\* and queueing an array whose mark bit is set changes neither the mark stack
\* nor any mark bit.
C21_PushedAtMostOnce ==
    /\ \A i, j \in 1..Len(hist.pushed) : hist.pushed[i] = hist.pushed[j] => i = j
    /\ \A a \in mark : \A k \in {NULL, a} : QUEUE_MARK_ARRAY_DEEP(Marks, a, k, 1) = Marks
\* an array that two cells refer to has been pushed, and the cell met second
\* has been traced
C21_SharedArrayPushed ==
    /\ pc = "sweep_routines" /\ ~shutdown
    /\ TG_Top_Chunk = <<Block(ArrA)>>
    /\ ser[RootV].used /\ ser[RootV].cells[2] = Block(ArrA)
    /\ \E i \in 1..Len(hist.pushed) : hist.pushed[i] = ArrA
    /\ {ArrA, RootV} \subseteq mark

\* C23: when Recycle_Core(FALSE) returns after a cycle, the ballast has been
\* reset to the budget: GC_Ballast equals TASK_BALLAST.
C23_BallastReset == CycleReturned /\ ~shutdown => GC_Ballast = TASK_BALLAST

\* C24: the budget TASK_BALLAST is never below the floor MEM_BALLAST, whatever
\* was allocated and freed between the cycles.
C24_BudgetAboveFloor == TASK_BALLAST >= MEM_BALLAST
\* a cycle has shrunk a budget that an earlier cycle had grown, down to the floor
C24_ShrunkToFloor ==
    /\ CycleReturned /\ ~shutdown
    /\ TASK_BALLAST = MEM_BALLAST
    /\ hist.budget > MEM_BALLAST
    /\ Quot((hist.budget - hist.ballast) * 5, 4) < MEM_BALLAST

\* C25: the value Recycle_Core returns is the number of nodes the call has
\* freed in the four pools: it is at least 1 when a managed series that no
\* root reaches existed when the cycle was entered, and 0 when no cycle is run.
C25_ReturnsFreedCount ==
    /\ CycleReturned
           => /\ hist.returned = hist.before - Cardinality(Allocated)
              /\ SeriesOf(hist.managed \ hist.reach) # {} => hist.returned >= 1
    /\ pc = "idle" /\ hist.last = "early" => hist.returned = 0

\* C22: the marking of gobs, structs, struct fields and routine descriptors
\* terminates on every heap, cyclic ones included (a gob and its parent, a
\* struct whose field holds the struct itself): the recursion never uses up
\* the native stack, and a cycle walks the references of each gob and of each
\* routine at most once.
C22_RecursiveMarkingTerminates ==
    /\ pc # "overflow"
    /\ \A i, j \in 1..Len(hist.visited) : hist.visited[i] = hist.visited[j] => i = j
\* a cycle has marked a struct whose first field holds the struct itself
C22_CyclicStructMarked ==
    /\ pc = "sweep_routines" /\ ~shutdown
    /\ ser[StuB].used /\ ser[StuB].cells[1] = StructA
    /\ {StuD, StuF, StuB, StuG} \subseteq mark

\* the cells the mark phase has traced: the cells of the root slots and of the
\* marked arrays it has popped
TracedCells ==
    {GC_Value_Guard[i] : i \in 1..Len(GC_Value_Guard)}
    \cup {TG_Top_Chunk[i] : i \in 1..Len(TG_Top_Chunk)}
    \cup {Callback_Error}
    \cup {TG_Frame_Stack[i].out : i \in 1..Len(TG_Frame_Stack)}
    \cup UNION {{ser[a].cells[i] : i \in 1..Len(ser[a].cells)} :
                   a \in {x \in mark : ser[x].used /\ ser[x].array
                                          /\ ~(ser[x].stack /\ ~ser[x].accessible)}}

\* C27: what the mark phase keeps does not depend on the order in which it
\* traces: when it is complete, the spec of every LIBRARY! value it has traced
\* is marked, also when a routine marked the library's handle first, and the
\* spec and the field list of every STRUCT! value it has traced are marked,
\* also when another path marked the struct's data binary first.
C27_MarkedWhateverTheOrder ==
    pc = FirstSweep /\ ~shutdown
        => \A v \in TracedCells :
               /\ v.type = "REB_LIBRARY" => v.aux \in mark
               /\ v.type = "REB_STRUCT" => {v.aux, v.extra} \subseteq mark

\* C26: every bit pattern that begins a node in use, a value cell or an implicit
\* end marker differs in its leading bytes from every start of valid UTF-8
\* text, and the all-zero header begins free nodes only: the leading bits of a
\* pointer's target say which one of free node, node in use, value cell,
\* terminator and text the target is.
C26_HeaderClassifies ==
    target.class # {} => target.class = {target.kind}

\* C28: while Do_Closure_Throws, Make_Function (with Check_Func_Spec) or
\* Clonify_Function makes a call that can allocate, every array it holds that has
\* the managed flag is guarded or can be reached from a root
C28_ManagedHeldArraysAreProtected ==
    call.fn \in {"Do_Closure_Throws", "Make_Function", "Clonify_Function"}
    /\ call.at \in Allocating
        => \A a \in call.holds : ser[a].used /\ ser[a].managed => S(a) \in Reachable

\* C29: every series that Do_Closure_Throws, Do_Eval_Rule or
\* Make_Guarded_Arg123_Error has passed to Guard_Series_Core had the managed flag
\* when it was passed
C29_GuardedSeriesAreManaged ==
    \A i \in 1..Len(call.passed) : call.passed[i].managed

\* C30: when Do_Closure_Throws or Do_Eval_Rule has been left, by return, by a
\* throw or by fail, both guard stacks have the length they had when it was entered
C30_GuardStacksAsOnEntry ==
    call.fn \in {"Do_Closure_Throws", "Do_Eval_Rule"} /\ call.exit \in Outcomes
        => <<Len(GC_Series_Guard), Len(GC_Value_Guard)>> = call.entry

\* C31: a call of Recycle_Core that is made while a cycle is running returns 0 to
\* the cycle, which goes on where it was, and leaves the mark bits and the mark
\* worklist as they were
C31_NestedCallReturnsAtOnce ==
    [][hist.last # "nested" /\ hist'.last = "nested"
           => /\ pc' = pc
              /\ hist'.returned = 0
              /\ <<mark, gob_mark, lib_mark, rin_mark, GC_Mark_Stack>>'
                     = <<mark, gob_mark, lib_mark, rin_mark, GC_Mark_Stack>>]_vars

\* C32: the mark worklist is empty when Recycle_Core is entered, when its sweep
\* phase begins and when it returns, the return at once of a call made while
\* collection is off included
C32_WorklistEmptyAtTheEnds ==
    /\ hist.last \in {"early", "running", "cycle"} => hist.marks[5] = <<>>
    /\ pc = FirstSweep => GC_Mark_Stack = <<>>
    /\ pc = "idle" /\ hist.last \in {"early", "cycle"} => GC_Mark_Stack = <<>>

\* C33: when a call of Recycle_Core that ran a cycle has returned, in shutdown
\* mode or not, GC_Disabled is 0
C33_CollectionOnAgain == CycleReturned => GC_Disabled = 0

\* C34: the adjustment of the budget at the end of a cycle moves TASK_BALLAST
\* and GC_Ballast by the same amount: the bytes in use, TASK_BALLAST - GC_Ballast,
\* are after it what they were before it, whether the budget grew or shrank
C34_UsageKeptByAdjustment ==
    CycleReturned /\ ~shutdown
        => TASK_BALLAST - GC_Ballast = hist.budget - hist.ballast
\* a cycle has moved the budget while bytes were in use
C34_BudgetMovedInUse ==
    /\ CycleReturned /\ ~shutdown
    /\ TASK_BALLAST # hist.budget
    /\ TASK_BALLAST # GC_Ballast

\* the varlists of stack-based contexts whose stack level has been popped
PoppedLevels == {s \in Series : ser[s].used /\ ser[s].stack /\ ~ser[s].accessible}

\* C35: the varlist of a stack-based context whose stack level has been popped
\* is never pushed on the worklist (so that none of its cells is traced); when
\* the mark phase has reached it, by way of its context, it is marked, and the
\* sweep of the series pool keeps it
C35_PoppedLevelMarkedNotTraced ==
    /\ [](\A s \in PoppedLevels :
              /\ \A i \in 1..Len(hist.pushed) : hist.pushed[i] # s
              /\ pc = FirstSweep /\ ~shutdown
                 /\ (\E i \in 1..Len(hist.pushed) : hist.pushed[i] = CTX_KEYLIST(s))
                     => s \in mark)
    /\ [][pc = "sweep_series" /\ ~shutdown /\ pc' # "panic"
              => \A s \in PoppedLevels \cap mark : ser[s].managed => ser'[s].used]_vars
\* a cycle has reached the popped varlist of the port and kept it, and has freed
\* the block that only the place of the varlist's second cell refers to
C35_PoppedLevelKept ==
    /\ CycleReturned /\ ~shutdown
    /\ PortV \in PoppedLevels /\ ser[PortV].cells[2] = Block(ArrA)
    /\ \E i \in 1..Len(hist.pushed) : hist.pushed[i] = PortK
    /\ ~ser[ArrA].used

\* what REDUCE/no-set makes of the item at position i (counted from 0)
Reduced(block, i) == IF block[i + 1] = "a:" THEN <<"set-word", i>> ELSE <<"value", i>>

\* C36: REDUCE/no-set on a block none of whose expressions throws returns; the
\* result has each set-word of the block, unchanged, at its position and the
\* value of each other expression at its own; no variable is assigned through
\* a set-word; each expression is evaluated once, in order
C36_NoSetKeepsSetWords ==
    call.fn = "Reduce_Array_No_Set_Throws" /\ call.exit # "none"
    /\ (\A i \in 1..Len(call.block) : call.block[i] # "t")
        => /\ call.exit = "return"
           /\ call.out[2] = [i \in 1..Len(call.block) |-> Reduced(call.block, i - 1)]
           /\ call.assigned = <<>>
           /\ \A i, j \in 1..Len(call.evals) : i < j => call.evals[i] < call.evals[j]
           /\ {call.evals[i] : i \in 1..Len(call.evals)}
                  = {i \in 0..(Len(call.block) - 1) : call.block[i + 1] # "a:"}

\* C37: whenever a parse routine has returned THROWN_FLAG, parse->out holds a
\* thrown value: the result of the evaluation that threw, or the throw by
\* which PARSE returns from itself
C37_ThrownFlagMeansThrownOut ==
    call.fn = "Parse_Core" /\ call.ret = THROWN_FLAG
        => /\ THROWN(call.out)
           /\ call.out.kind = "thrown" => call.out.of = call.threw

\* C38: every running call of Compose_Values_Throws that was given into = TRUE
\* was given a cell out that held the target series, the call of the native
\* and the calls on nested blocks under /deep alike
C38_IntoMeansOutHoldsTarget ==
    call.fn = "compose" =>
        \A i \in 1..Len(call.stack) : call.stack[i].into => call.stack[i].entry = "target"

\* the cell that the routine wrote its function to
Made == IF call.fn = "Clonify_Function" THEN ser[RootV].cells[2] ELSE TG_Frame_Stack[1].out

\* C39: when Make_Native, Make_Function or Clonify_Function has returned, the
\* first cell of the paramlist of the function it wrote holds that function's
\* value, whose paramlist field is that same array
C39_ParamlistHeadIsTheFunction ==
    call.fn \in {"Make_Native", "Make_Function", "Clonify_Function"} /\ call.exit = "return"
        => /\ Made.type = "REB_FUNCTION"
           /\ ~SER_FREED(Made.ser)
           /\ ser[Made.ser].cells[1] = Made
           /\ ser[Made.ser].cells[1].ser = Made.ser

\* Clonify_Function has returned: the copy has a paramlist of its own, whose
\* head is the copy and no longer the function it was copied from
C39_CloneReturned ==
    /\ call.fn = "Clonify_Function" /\ call.exit = "return"
    /\ Made.ser # ParL /\ ser[ParL].cells[1] = UserFn
    /\ ser[Made.ser].cells[1] = Made /\ Made # UserFn

\* C40: when Try_Add_Binder_Index has accepted a nonzero index for a canon, the
\* Try_Get_Binder_Index that follows returns that index, and the
\* Try_Remove_Binder_Index after it returns it too and leaves the binder's
\* debug count as it was before the add
C40_AddGetRemoveRoundTrip ==
    call.fn = "binder" /\ call.at = "done" /\ call.added
        => /\ call.got = call.index
           /\ call.removed = call.index
           /\ call.count = call.before

====
